---- MODULE Spec2Model ----
(***************************************************************************)
(* Cache-ingestion pipeline of programs/pipeline _old.py (FrameWatcher,    *)
(* BatchCompressor, BatchUploader, Pipeline) and the presigned-URL         *)
(* uploader of programs/presigned_uploader.py.                             *)
(*                                                                         *)
(* File names are sequences of one-character strings so that the frame     *)
(* patterns and the extension filter are computed, not assumed.            *)
(***************************************************************************)
EXTENDS Integers, Sequences, FiniteSets, TLC

\* ------------------------------------------------------------------ bounds
\* Number of cache files the producer may write (indices into FileNames).
NumPaths == 3
\* Number of those files the producer writes when the watcher runs on its own.
NumWatched == 2
\* Largest file size (bytes, scaled) the producer writes.
MaxSize == 2

\* Number of writes and deletes of the producer in a run of the whole pipeline.
MaxWrites == 3
\* Largest compressed payload size and largest upload duration (scaled).
MaxCompressed == 1
MaxDuration == 1
\* Number of failures and timeouts injected in a run of the whole pipeline.
MaxFaults == 1
\* Adaptive sizing on its own: number of batch records in the ledger, largest
\* numerator and denominator of the rolling speed and ratio.
MaxBatches == 2
MaxRate == 2
\* _upload_batch on its own: largest len(data) of the batch
MaxData == 9
\* extract_frame_number alone: most digits a frame number is written with
MaxWidth == 7
\* the uploader on its own: most submissions on the batch queue
MaxSubmits == 3
\* Pipeline.finalize: sleeps of 0.5 s until its timeout; 240 (120 s) in the
\* code, scaled down
FinalizeWaitPolls == 2

\* --------------------------------------------- configuration (Config.*)
DEFAULT_BATCH_SIZE == 2
MIN_BATCH_SIZE == 1
MAX_BATCH_SIZE == 3
TARGET_UPLOAD_TIME == 1
ZSTD_MIN_TRAINING_SAMPLES == 2
\* Config.S3_MULTIPART_THRESHOLD, Config.S3_MULTIPART_CHUNK_SIZE, in the unit
\* of MaxData
S3_MULTIPART_THRESHOLD == 2
S3_MULTIPART_CHUNK_SIZE == 2

\* ------------------------------------------------------- program constants
\* _add_frame keeps at most this many training samples
DictSampleCap == 30
\* _wait_stable: timeout=3.0 with waited += 0.3 per poll. In binary floating
\* point ten additions of 0.3 give 2.9999999999999996 < 3.0, so the loop body
\* runs 11 times.
WaitStablePolls == 11

\* upload_file(..., max_retries: int = 3)
DefaultMaxRetries == 3

\* extract_frame_number returns None
NoFrame == -1
\* path.stat() raises OSError (file absent)
Absent == -1
\* extract_frame_number has not been called
NotRun == -2

\* ---------------------------------------------------------------- file names
FileNames ==
  << <<"c","_","0","0","1","0",".","v","d","b">>,
     <<"p","_","0","0","1","1","_","0","0",".","b","p","h","y","s">>,
     <<"m","e","s","h",".","o","b","j">>,
     <<"d","_","0","0","1","0",".","p","n","g">>,
     <<"c","_","0","0","1","2",".","v","d","b">> >>

Paths == 1..NumPaths

\* ------------------------------------------------------------- Frame Codec
Digits == <<"0","1","2","3","4","5","6","7","8","9">>

IsDigit(c) == \E i \in 1..10 : Digits[i] = c

DigitVal(c) == (CHOOSE i \in 1..10 : Digits[i] = c) - 1

\* \w of the regex: letters, digits and underscore
IsWord(c) ==
  \/ IsDigit(c)
  \/ c = "_"
  \/ c \in {"a","b","c","d","e","f","g","h","i","j","k","l","m","n","o","p",
            "q","r","s","t","u","v","w","x","y","z"}

\* int(m.group(1)) on a string of decimal digits
RECURSIVE ToInt(_)
ToInt(ds) ==
  IF Len(ds) = 0 THEN 0
  ELSE 10 * ToInt(SubSeq(ds, 1, Len(ds) - 1)) + DigitVal(ds[Len(ds)])

\* length of the maximal run of digits of name starting at position j
RECURSIVE DigitRun(_, _)
DigitRun(name, j) ==
  IF j > Len(name) \/ ~IsDigit(name[j]) THEN 0
  ELSE 1 + DigitRun(name, j + 1)

\* name continues at position j with exactly the literal lit and then ends ($)
EndsWithAt(name, j, lit) ==
  /\ j + Len(lit) - 1 = Len(name)
  /\ \A k \in 1..Len(lit) : name[j + k - 1] = lit[k]

\* name has the literal lit at position j
HasAt(name, j, lit) ==
  /\ j >= 1
  /\ j + Len(lit) - 1 <= Len(name)
  /\ \A k \in 1..Len(lit) : name[j + k - 1] = lit[k]

\* \.\w+$ at position j
DotWordEndAt(name, j) ==
  /\ j < Len(name)
  /\ name[j] = "."
  /\ \A k \in (j + 1)..Len(name) : IsWord(name[k])

\* r'_(\d{4,6})_\d+\.bphys$' matches starting at position i
MatchPtcacheIndex(name, i) ==
  LET r == DigitRun(name, i + 1)
      j == i + 1 + r
      r2 == DigitRun(name, j + 1)
  IN  /\ name[i] = "_"
      /\ r >= 4 /\ r <= 6
      /\ j <= Len(name) /\ name[j] = "_"
      /\ r2 >= 1
      /\ EndsWithAt(name, j + 1 + r2, <<".","b","p","h","y","s">>)

\* r'_(\d{4,6})\.bphys$' matches starting at position i
MatchPtcacheSimple(name, i) ==
  LET r == DigitRun(name, i + 1)
  IN  /\ name[i] = "_"
      /\ r >= 4 /\ r <= 6
      /\ EndsWithAt(name, i + 1 + r, <<".","b","p","h","y","s">>)

\* r'_(\d{4,6})\.vdb$' matches starting at position i
MatchOpenVdb(name, i) ==
  LET r == DigitRun(name, i + 1)
  IN  /\ name[i] = "_"
      /\ r >= 4 /\ r <= 6
      /\ EndsWithAt(name, i + 1 + r, <<".","v","d","b">>)

\* r'data_(\d{4,6})\.vdb$' matches starting at position i (i is the "d")
MatchMantaflow(name, i) ==
  LET r == DigitRun(name, i + 5)
  IN  /\ HasAt(name, i, <<"d","a","t","a","_">>)
      /\ r >= 4 /\ r <= 6
      /\ EndsWithAt(name, i + 5 + r, <<".","v","d","b">>)

\* r'_(\d+)\.\w+$' matches starting at position i
MatchGeneric(name, i) ==
  LET r == DigitRun(name, i + 1)
  IN  /\ name[i] = "_"
      /\ r >= 1
      /\ DotWordEndAt(name, i + 1 + r)

\* FRAME_PATTERNS in list order; k is the index of the pattern
PatternMatches(k, name, i) ==
  CASE k = 1 -> MatchPtcacheIndex(name, i)
    [] k = 2 -> MatchPtcacheSimple(name, i)
    [] k = 3 -> MatchOpenVdb(name, i)
    [] k = 4 -> MatchMantaflow(name, i)
    [] k = 5 -> MatchGeneric(name, i)

\* position of the first digit of group(1) for a match of pattern k at i
GroupStart(k, i) == IF k = 4 THEN i + 5 ELSE i + 1

NumPatterns == 5

\* the least element of a set of positive integers, 0 for the empty set
Leftmost(hits) ==
  IF hits = {} THEN 0 ELSE CHOOSE i \in hits : \A j \in hits : i <= j

\* pattern.search(name): the leftmost position at which pattern k matches, or 0
Search(k, name) ==
  Leftmost({i \in 1..Len(name) : PatternMatches(k, name, i)})

\* int(m.group(1)) for the group that starts at position g
Capture(name, g) == ToInt(SubSeq(name, g, g + DigitRun(name, g) - 1))

\* the return value for the first matching pattern k (0 when none matched)
CaptureOf(name, k) ==
  IF k = 0 THEN NoFrame ELSE Capture(name, GroupStart(k, Search(k, name)))

\* the greatest element of a set of positive integers, 0 for the empty set
Rightmost(hits) ==
  IF hits = {} THEN 0 ELSE CHOOSE i \in hits : \A j \in hits : j <= i

\* variant of extract_frame_number that takes the last pattern that matches
extract_frame_number_last(name) ==
  CaptureOf(name, Rightmost({k \in 1..NumPatterns : Search(k, name) # 0}))

\* extract_frame_number: the capture of the first pattern, in list order, that
\* matches; NoFrame when none does
extract_frame_number(name) ==
  CaptureOf(name, Leftmost({k \in 1..NumPatterns : Search(k, name) # 0}))

\* the digits \d{4,6} accepts
MinFrameDigits == 4
MaxFrameDigits == 6

\* n written in decimal with w digits, zero-padded (n < 10^w)
RECURSIVE PadDigits(_, _)
PadDigits(n, w) ==
  IF w = 0 THEN << >>
  ELSE Append(PadDigits(n \div 10, w - 1), Digits[(n % 10) + 1])

\* a file name of naming convention conv (the index of its pattern in
\* FRAME_PATTERNS) for frame n written with w digits
ConventionName(conv, n, w) ==
  CASE conv = 1 -> <<"p","_">> \o PadDigits(n, w)
                     \o <<"_","0","0",".","b","p","h","y","s">>
    [] conv = 2 -> <<"p","_">> \o PadDigits(n, w) \o <<".","b","p","h","y","s">>
    [] conv = 3 -> <<"s","_">> \o PadDigits(n, w) \o <<".","v","d","b">>
    [] conv = 4 -> <<"d","a","t","a","_">> \o PadDigits(n, w)
                     \o <<".","v","d","b">>
    [] conv = 5 -> <<"f","_">> \o PadDigits(n, w) \o <<".","p","n","g">>

\* file names that follow no convention: no number, a number without the
\* underscore before it, without an extension, or followed by a letter
OtherNames ==
  { <<"m","e","s","h",".","o","b","j">>,
    <<"c","a","c","h","e",".","b","p","h","y","s">>,
    <<"d","a","t","a",".","v","d","b">>,
    <<"f","0","0","1","0",".","p","n","g">>,
    <<"p","_","0","0","1","0">>,
    <<"p","_","0","0","1","0","_",".","b","p","h","y","s">>,
    <<"p","_","1","2","a",".","p","n","g">> }

\* frame number of each path of the model, computed once
FrameOf == [p \in Paths |-> extract_frame_number(FileNames[p])]

\* ------------------------------------------------------ extension allow-list
CACHE_EXTENSIONS ==
  { <<".","b","p","h","y","s">>, <<".","v","d","b">>, <<".","u","n","i">>,
    <<".","g","z">>, <<".","p","n","g">>, <<".","e","x","r">>,
    <<".","a","b","c">>, <<".","o","b","j">>, <<".","p","l","y">> }

\* str.lower() on the characters file names of the model may contain
Lower(c) ==
  CASE c = "V" -> "v" [] c = "D" -> "d" [] c = "B" -> "b" [] c = "P" -> "p"
    [] c = "N" -> "n" [] c = "G" -> "g" [] OTHER -> c

\* Path.suffix: from the last dot (not a leading one) to the end, else empty
Suffix(name) ==
  LET dots == {i \in 2..Len(name) : name[i] = "."}
  IN  IF dots = {} \/ name[Len(name)] = "." THEN << >>
      ELSE LET d == CHOOSE i \in dots : \A j \in dots : j <= i
           IN  SubSeq(name, d, Len(name))

IsCacheFile(name) ==
  LET s == Suffix(name)
  IN  [i \in 1..Len(s) |-> Lower(s[i])] \in CACHE_EXTENSIONS


\* -------------------------------------------------------------------- state
VARIABLES
  \* local filesystem under the cache root: size of each path, Absent if none
  fsize,
  \* create/modify notifications queued by the observer, not yet dispatched
  events,
  \* number of writes/deletes the external producer may still perform; -1 when
  \* the producer is not limited
  writes_left,
  \* the paths the producer writes in this run
  writable,
  \* FrameWatcher.start() has run / FrameWatcher._observer is running
  started, observing,
  \* FrameWatcher._seen_files, FrameWatcher._already_secured
  seen_files, already_secured,
  \* the observer thread inside _process_file/_wait_stable:
  \* position, path, last_size, number of polls done (waited / 0.3)
  w_pc, w_path, w_last, w_waited,
  \* Pipeline._frame_queue (queue A), Pipeline._batch_queue (queue B)
  frame_queue, batch_queue,
  \* BatchCompressor: _pending_frames, _pending_frame_numbers,
  \* _dict_training_samples, _dict_trained, _batch_size, _stop_event
  pending_frames, pending_frame_numbers, dict_training_samples, dict_trained,
  batch_size, comp_stop,
  \* the Compressor thread: position in _run/_add_frame and the path in hand
  wk_pc, wk_path,
  \* _compress_batch per calling context ("w" the Compressor thread, "m" the
  \* thread that calls Pipeline.finalize): position, frames_to_compress,
  \* frame_numbers, batch.batch_id
  c_pc, c_frames, c_nums, c_batch,
  \* ZstdDictManager: is_trained, and the number of train, save_to_file and
  \* upload_dict calls
  dm_trained, dict_trains, dict_saves, dict_uploads,
  \* BatchUploader: _stop_event, position in _run/_upload_batch, the item taken
  up_stop, up_pc, up_item,
  \* ProgressTracker: produced frames, secured frames, batch records by id
  baked_frames, secured_frames, batches,
  \* the thread that owns the Pipeline: position in start/finalize/stop,
  \* finalize() has returned, its wait hit the timeout
  m_pc, finalized, timed_out,
  \* Pipeline.finalize: number of 0.5 s sleeps of its wait loop so far (a
  \* local of finalize, 0 outside the loop)
  f_waited,
  \* messages handed to ws_client.send
  messages,
  \* history: number of frame_queue.put calls per path; how each path passed
  \* the watcher ("no", "scan", "stable", "timeout"); the paths put on the
  \* file queue before finalize() was called; the number of failures (of
  \* training, compression, upload, notification) and timeouts still to come
  enq_count, admitted, f_enq, faults_left,
  \* history: the files each batch was created for, by batch id
  batch_files,
  \* PresignedUploader.upload_file: whether file_path exists, position,
  \* attempt, PUT calls made, their outcomes, delays slept, return value
  ps_exists, ps_pc, ps_attempt, ps_puts, ps_log, ps_sleeps, ps_result,
  \* adaptive sizing on its own: rolling speed and ratio handed to
  \* update_batch_size, and whether it has been applied
  sz_speed, sz_ratio, sz_done,
  \* history: ids of the batches _upload_batch was called for, in call order
  up_tried,
  \* _upload_batch / _multipart_upload for one batch on its own: position,
  \* len(data), offset, part_number, parts, the S3 calls made so far, and the
  \* status the ledger ends with for the batch
  mp_pc, mp_size, mp_offset, mp_part_number, mp_parts, mp_calls, mp_status,
  \* extract_frame_number on its own: naming convention, frame number, number
  \* of digits it is written with, the file name in hand (empty before it is
  \* built) and the value returned (NotRun before the call)
  fc_conv, fc_frame, fc_width, fc_name, fc_result,
  \* CacheStreamer: size of each cache file (Absent if none),
  \* pending_url_files in insertion order, queued_files, uploaded_files,
  \* failed_files, upload_queue
  cs_fsize, cs_pending, cs_queued, cs_uploaded, cs_failed,
  cs_upload_queue,
  \* _upload_loop/_upload_file: position, the file in hand, and how the call
  \* of upload_file ended ("none" until it has)
  cs_pc, cs_file, cs_result,
  \* the files of the last REQUEST_UPLOAD_URLS message, and the files asked
  \* for whose answer is still to come
  cs_request, cs_asked,
  \* history: per file, "waiting" from the failed upload that put it back
  \* into pending_url_files, "asked" once a request names it, "none" otherwise
  cs_retry,
  \* CacheStreamer.finalize: position, and which of its two waits ended at
  \* the timeout
  cs_fin, cs_fin_timed_out

fsVars == <<fsize, events, writes_left, writable>>
watcherVars == <<started, observing, seen_files, already_secured,
                 w_pc, w_path, w_last, w_waited>>
compVars == <<pending_frames, pending_frame_numbers, dict_training_samples,
              dict_trained, batch_size, comp_stop, wk_pc, wk_path,
              c_pc, c_frames, c_nums, c_batch>>
dictVars == <<dm_trained, dict_trains, dict_saves, dict_uploads>>
upVars == <<up_stop, up_pc, up_item>>
ledgerVars == <<baked_frames, secured_frames, batches>>
mainVars == <<m_pc, finalized, timed_out, f_waited>>
histVars == <<enq_count, admitted, f_enq, batch_files, faults_left>>
psVars == <<ps_exists, ps_pc, ps_attempt, ps_puts, ps_log, ps_sleeps,
           ps_result>>
szVars == <<sz_speed, sz_ratio, sz_done>>
mpVars == <<mp_pc, mp_size, mp_offset, mp_part_number, mp_parts, mp_calls,
           mp_status>>
fcVars == <<fc_conv, fc_frame, fc_width, fc_name, fc_result>>
csVars == <<cs_fsize, cs_pending, cs_queued, cs_uploaded,
           cs_failed, cs_upload_queue, cs_pc, cs_file, cs_result,
           cs_request, cs_asked, cs_retry, cs_fin, cs_fin_timed_out>>
finVars == <<cs_fin, cs_fin_timed_out>>

\* everything but the filesystem, the watcher, queue A and the ledger
downstreamVars == <<batch_queue, compVars, dictVars, upVars, mainVars,
                    messages, up_tried, psVars, szVars, mpVars, fcVars, csVars>>

vars == <<fsVars, watcherVars, frame_queue, ledgerVars, histVars,
          downstreamVars>>

\* frames a resumed run may be seeded with
SeedFrames == {10}

\* the cache files the streamer is run on
NumCsFiles == 2
CsFiles == 1..NumCsFiles

\* ----------------------------------------------------------- Progress Ledger
\* ProgressTracker(total_frames, already_secured): the secured set is seeded
\* from the prior run; frame records of the run itself start empty
LedgerInit(seed) ==
  /\ baked_frames = {}
  /\ secured_frames = seed
  /\ batches = << >>

\* register_baked_frame(frame)
register_baked_frame(baked, frame) == baked \cup {frame}

\* variant of create_batch that gives the new batch the id of the last one
create_batch_reuse(bs, frames) ==
  IF bs = << >>
  THEN <<[frames |-> frames, status |-> "pending",
          raw |-> 0, comp |-> 0, dur |-> 0]>>
  ELSE [bs EXCEPT ![Len(bs)] = [frames |-> frames, status |-> "pending",
                                raw |-> 0, comp |-> 0, dur |-> 0]]

\* create_batch(frames): a new record with the next id (ids count from 1)
create_batch(bs, frames) ==
  Append(bs, [frames |-> frames, status |-> "pending",
              raw |-> 0, comp |-> 0, dur |-> 0])

\* register_compressed(batch_id, compressed_size, raw_size)
register_compressed(bs, id, comp, raw) ==
  [bs EXCEPT ![id] = [@ EXCEPT !.status = "compressed",
                               !.comp = comp, !.raw = raw]]

\* register_secured(batch_id, key, duration): the batch is confirmed
register_secured(bs, id, dur) ==
  [bs EXCEPT ![id] = [@ EXCEPT !.status = "confirmed", !.dur = dur]]

\* register_secured adds the frames of the batch to the secured set
secured_after(sec, bs, id) == sec \cup {bs[id].frames[i] : i \in 1..Len(bs[id].frames)}

\* register_batch_failed(batch_id)
register_batch_failed(bs, id) ==
  [bs EXCEPT ![id] = [@ EXCEPT !.status = "failed"]]

Confirmed(bs) == {i \in 1..Len(bs) : bs[i].status = "confirmed"}

RECURSIVE SumOver(_, _)
SumOver(f, S) ==
  IF S = {} THEN 0
  ELSE LET x == CHOOSE y \in S : TRUE IN f[x] + SumOver(f, S \ {x})

\* upload_speed_bps: payload bytes of the confirmed batches over their upload
\* time, as a fraction [n, d]; n = 0 while nothing is confirmed
upload_speed_bps(bs) ==
  LET C == Confirmed(bs)
      d == SumOver([i \in C |-> bs[i].dur], C)
  IN  IF C = {} \/ d = 0 THEN [n |-> 0, d |-> 1]
      ELSE [n |-> SumOver([i \in C |-> bs[i].comp], C), d |-> d]

\* compression_ratio: raw over compressed bytes of the confirmed batches
compression_ratio(bs) ==
  LET C == Confirmed(bs)
      c == SumOver([i \in C |-> bs[i].comp], C)
  IN  IF C = {} \/ c = 0 THEN [n |-> 0, d |-> 1]
      ELSE [n |-> SumOver([i \in C |-> bs[i].raw], C), d |-> c]

\* ------------------------------------------------------------- Frame Watcher
\* variant of process_file_frame that forgets to add the path to _seen_files
process_file_frame_unseen(p, st, frame) ==
  [seen  |-> st.seen,
   baked |-> IF frame # NoFrame
             THEN register_baked_frame(st.baked, frame)
             ELSE st.baked,
   next  |-> IF frame # NoFrame /\ frame \in already_secured
             THEN "secured" ELSE "go"]

\* variant of process_file_frame that registers the frame as baked only after
\* the already-secured test
process_file_frame_late(p, st, frame) ==
  [seen  |-> st.seen \cup {p},
   baked |-> IF frame # NoFrame /\ frame \notin already_secured
             THEN register_baked_frame(st.baked, frame)
             ELSE st.baked,
   next  |-> IF frame # NoFrame /\ frame \in already_secured
             THEN "secured" ELSE "go"]

\* variant of process_file_frame without the already-secured test
process_file_frame_resend(p, st, frame) ==
  [seen  |-> st.seen \cup {p},
   baked |-> IF frame # NoFrame
             THEN register_baked_frame(st.baked, frame)
             ELSE st.baked,
   next  |-> "go"]

\* _process_file for a path not seen before, with the frame number extracted
\* from it: the path is marked seen, its frame registered as baked, and the
\* already-secured test decides whether to go on
process_file_frame(p, st, frame) ==
  [seen  |-> st.seen \cup {p},
   baked |-> IF frame # NoFrame
             THEN register_baked_frame(st.baked, frame)
             ELSE st.baked,
   next  |-> IF frame # NoFrame /\ frame \in already_secured
             THEN "secured" ELSE "go"]

\* _process_file up to the stability wait, on the watcher state
\* st = [seen, baked]; the result adds what the caller does next:
\*   "seen"    the path was already in _seen_files: return
\*   "secured" the frame is in _already_secured: return
\*   "go"      continue to the stability wait / the put
process_file_head(p, st) ==
  IF p \in st.seen
  THEN [seen |-> st.seen, baked |-> st.baked, next |-> "seen"]
  ELSE process_file_frame(p, st, FrameOf[p])

\* one file of _scan_existing: h is what _process_file did up to the put
scan_file(st, p, h) ==
  [seen  |-> h.seen,
   baked |-> h.baked,
   queue |-> IF h.next = "go" THEN Append(st.queue, p) ELSE st.queue,
   count |-> IF h.next = "go" THEN [st.count EXCEPT ![p] = @ + 1]
             ELSE st.count,
   adm   |-> IF h.next = "go" THEN [st.adm EXCEPT ![p] = "scan"] ELSE st.adm]

\* _scan_existing: _process_file(fp, initial=True) for each file found, in
\* the order rglob yields them; st = [seen, baked, queue, count, adm]
RECURSIVE scan_existing(_, _)
scan_existing(order, st) ==
  IF order = << >> THEN st
  ELSE scan_existing(Tail(order),
         scan_file(st, Head(order),
           process_file_head(Head(order),
             [seen |-> st.seen, baked |-> st.baked])))

\* all orders in which a set of paths can be enumerated
Orders(S) ==
  {o \in [1..Cardinality(S) -> S] : \A i, j \in 1..Cardinality(S) :
                                      i # j => o[i] # o[j]}

\* FrameWatcher.start(): scan of the files present, then the observer runs
WatcherStart ==
  /\ ~started
  /\ \E order \in Orders({p \in Paths : fsize[p] # Absent
                                        /\ IsCacheFile(FileNames[p])}) :
       \E st \in {scan_existing(order,
                    [seen |-> seen_files, baked |-> baked_frames,
                     queue |-> frame_queue, count |-> enq_count,
                     adm |-> admitted])} :
           /\ seen_files' = st.seen
           /\ baked_frames' = st.baked
           /\ frame_queue' = st.queue
           /\ enq_count' = st.count
           /\ admitted' = st.adm
           /\ UNCHANGED <<f_enq, batch_files, faults_left>>
  /\ started' = TRUE
  /\ observing' = TRUE

\* variant of wait_stable_poll that accepts the first non-empty size it reads
wait_stable_poll_first(size, last, waited) ==
  IF size = Absent THEN "false"
  ELSE IF size > 0 THEN "true"
  ELSE IF waited + 1 < WaitStablePolls THEN "again"
  ELSE "false"

\* variant of wait_stable_poll that drops the file when the timeout elapses
wait_stable_poll_drop(size, last, waited) ==
  IF size = Absent THEN "false"
  ELSE IF size = last /\ size > 0 THEN "true"
  ELSE IF waited + 1 < WaitStablePolls THEN "again"
  ELSE "false"

\* _wait_stable decision for one poll: the stat result size (Absent = OSError),
\* last_size and the polls done so far. Result: "true"/"false" when the call
\* returns, "again" when it sleeps and polls again.
wait_stable_poll(size, last, waited) ==
  IF size = Absent THEN "false"
  ELSE IF size = last /\ size > 0 THEN "true"
  ELSE IF waited + 1 < WaitStablePolls THEN "again"
  ELSE IF size > 0 THEN "true" ELSE "false"

\* frame_queue.put(path) from the watcher, with the history of the put
WatcherPut(p, how) ==
  /\ frame_queue' = Append(frame_queue, p)
  /\ enq_count' = [enq_count EXCEPT ![p] = @ + 1]
  /\ admitted' = [admitted EXCEPT ![p] = how]
  /\ UNCHANGED <<f_enq, batch_files, faults_left>>

\* _CacheEventHandler.on_created/on_modified -> _on_file -> _process_file
\* (initial=False), up to the first poll of _wait_stable
WatcherDispatch(p) ==
  /\ observing
  /\ w_pc = "idle"
  /\ p \in events
  /\ events' = events \ {p}
  /\ IF ~IsCacheFile(FileNames[p])
     THEN UNCHANGED <<seen_files, baked_frames, w_pc, w_path, w_last, w_waited>>
     ELSE \E h \in {process_file_head(p, [seen |-> seen_files,
                                          baked |-> baked_frames])} :
              /\ seen_files' = h.seen
              /\ baked_frames' = h.baked
              /\ IF h.next = "go"
                 THEN /\ w_pc' = "wait_stable"
                      /\ w_path' = p
                      /\ w_last' = -1
                      /\ w_waited' = 0
                 ELSE UNCHANGED <<w_pc, w_path, w_last, w_waited>>
  /\ UNCHANGED <<fsize, writes_left, writable, started, observing, already_secured,
                 frame_queue, secured_frames, batches, histVars,
                 downstreamVars>>

\* one iteration of the _wait_stable loop and, when it returns, the rest of
\* _process_file
WatcherPoll ==
  /\ w_pc = "wait_stable"
  /\ LET size == fsize[w_path]
         r == wait_stable_poll(size, w_last, w_waited)
     IN  CASE r = "again" ->
                /\ w_last' = size
                /\ w_waited' = w_waited + 1
                /\ UNCHANGED <<w_pc, w_path, frame_queue, histVars>>
           [] r = "true" ->
                /\ WatcherPut(w_path,
                     IF size = w_last THEN "stable" ELSE "timeout")
                /\ w_pc' = "idle"
                /\ w_path' = 0 /\ w_last' = -1 /\ w_waited' = 0
           [] r = "false" ->
                /\ w_pc' = "idle"
                /\ w_path' = 0 /\ w_last' = -1 /\ w_waited' = 0
                /\ UNCHANGED <<frame_queue, histVars>>
  /\ UNCHANGED <<fsVars, started, observing, seen_files, already_secured,
                 ledgerVars, downstreamVars>>

\* FrameWatcher.stop(): the observer stops dispatching; a handler that is
\* inside _process_file runs on
WatcherStop ==
  /\ observing
  /\ observing' = FALSE
  /\ events' = {}
  /\ UNCHANGED <<fsize, writes_left, writable, started, seen_files, already_secured,
                 w_pc, w_path, w_last, w_waited, frame_queue, ledgerVars,
                 histVars, batch_queue, compVars, dictVars, upVars, messages,
                 psVars, szVars, mpVars, fcVars, csVars, up_tried>>

\* ------------------------------------------------------- external producer
\* sizes the producer writes: a producer limited to MaxWrites writes whole
\* files of one size
WriteSizes == IF writes_left = -1 THEN 0..MaxSize ELSE {1}

\* the producer creates p or changes its size; the observer queues an event
ProducerWrite(p, s) ==
  /\ writes_left # 0
  /\ p \in writable
  /\ s \in WriteSizes
  /\ s # fsize[p]
  /\ fsize' = [fsize EXCEPT ![p] = s]
  /\ writes_left' = IF writes_left > 0 THEN writes_left - 1 ELSE writes_left
  /\ UNCHANGED writable
  /\ events' = IF observing THEN events \cup {p} ELSE events
  /\ UNCHANGED <<watcherVars, frame_queue, ledgerVars, histVars,
                 downstreamVars>>

\* the file disappears (no create/modify event)
ProducerDelete(p) ==
  /\ writes_left # 0
  /\ p \in writable
  /\ fsize[p] # Absent
  /\ fsize' = [fsize EXCEPT ![p] = Absent]
  /\ writes_left' = IF writes_left > 0 THEN writes_left - 1 ELSE writes_left
  /\ UNCHANGED writable
  /\ UNCHANGED <<events, watcherVars, frame_queue, ledgerVars, histVars,
                 downstreamVars>>

\* an injected failure or timeout uses up one of the faults of the run
Fault(b) ==
  /\ b => faults_left > 0
  /\ faults_left' = IF b THEN faults_left - 1 ELSE faults_left

\* ----------------------------------------------------------- Batch Compressor
Ctx == {"w", "m"}

RECURSIVE ProdOver(_, _)
ProdOver(f, S) ==
  IF S = {} THEN 1
  ELSE LET x == CHOOSE y \in S : TRUE IN f[x] * ProdOver(f, S \ {x})

Max(a, b) == IF a >= b THEN a ELSE b
Min(a, b) == IF a <= b THEN a ELSE b

\* the confirmed batches update_batch_size averages over
sized_batches(bs) == {i \in Confirmed(bs) : Len(bs[i].frames) > 0}

\* avg_raw_per_frame = sum(b.raw_size / len(b.frames)) / len(confirmed), as a
\* fraction [n, d] over the common denominator of the batch lengths
avg_raw_per_frame(bs) ==
  LET C == sized_batches(bs)
      L == ProdOver([i \in C |-> Len(bs[i].frames)], C)
  IN  [n |-> SumOver([i \in C |-> bs[i].raw * (L \div Len(bs[i].frames))], C),
       d |-> L * Cardinality(C)]

\* variant of int_optimal that rounds to the nearest integer
int_optimal_round(speed, ratio, avg) ==
  (2 * speed.n * TARGET_UPLOAD_TIME * ratio.n * avg.d + speed.d * ratio.d * avg.n)
    \div (2 * speed.d * ratio.d * avg.n)

\* int(optimal) in exact arithmetic, for fractions speed, ratio and avg:
\*   compressed_per_frame = avg / ratio
\*   optimal = (speed * TARGET_UPLOAD_TIME) / compressed_per_frame
int_optimal(speed, ratio, avg) ==
  (speed.n * TARGET_UPLOAD_TIME * ratio.n * avg.d)
    \div (speed.d * ratio.d * avg.n)

\* BatchCompressor.update_batch_size: the new _batch_size, cur when the
\* method returns early
\* update_batch_size once avg_raw_per_frame is known: the early return on a
\* non-positive average, else the clamped integer part
clamp_optimal(speed, ratio, avg, cur) ==
  IF avg.n <= 0 THEN cur
  ELSE Max(MIN_BATCH_SIZE,
           Min(MAX_BATCH_SIZE, int_optimal(speed, ratio, avg)))

\* variant of update_batch_size without the early returns: an unknown speed or
\* ratio gives an optimum of 0, clamped to the minimum
update_batch_size_eager(speed, ratio, bs, cur) ==
  IF speed.n <= 0 \/ ratio.n <= 0 \/ sized_batches(bs) = {}
  THEN Max(MIN_BATCH_SIZE, Min(MAX_BATCH_SIZE, 0))
  ELSE clamp_optimal(speed, ratio, avg_raw_per_frame(bs), cur)

update_batch_size(speed, ratio, bs, cur) ==
  IF speed.n <= 0 \/ ratio.n <= 0 THEN cur
  ELSE IF sized_batches(bs) = {} THEN cur
  ELSE clamp_optimal(speed, ratio, avg_raw_per_frame(bs), cur)

\* variant of CompReturn in which an exception of the try block is not caught
\* and ends the Compressor thread
CompReturnRaise(ctx) ==
  /\ c_pc' = [c_pc EXCEPT ![ctx] = "idle"]
  /\ c_frames' = [c_frames EXCEPT ![ctx] = << >>]
  /\ c_nums' = [c_nums EXCEPT ![ctx] = << >>]
  /\ c_batch' = [c_batch EXCEPT ![ctx] = 0]
  /\ wk_pc' = IF ctx = "w"
              THEN (IF wk_pc = "compress" /\ c_pc[ctx] # "compress"
                    THEN "get" ELSE "exited")
              ELSE wk_pc
  /\ m_pc' = IF ctx = "m" THEN "f_wait" ELSE m_pc

\* return from _compress_batch to its caller
CompReturn(ctx) ==
  /\ c_pc' = [c_pc EXCEPT ![ctx] = "idle"]
  /\ c_frames' = [c_frames EXCEPT ![ctx] = << >>]
  /\ c_nums' = [c_nums EXCEPT ![ctx] = << >>]
  /\ c_batch' = [c_batch EXCEPT ![ctx] = 0]
  /\ wk_pc' = IF ctx = "w"
              THEN (IF wk_pc = "compress" THEN "get" ELSE "exited")
              ELSE wk_pc
  /\ m_pc' = IF ctx = "m" THEN "f_wait" ELSE m_pc

CompGoto(ctx, pc) ==
  /\ c_pc' = [c_pc EXCEPT ![ctx] = pc]
  /\ UNCHANGED <<wk_pc, m_pc>>

\* _add_frame, first statement: _pending_frames.append(path)
add_frame_path(pend, p) == Append(pend, p)

\* _add_frame, second statement: the frame number, when there is one
add_frame_number(nums, p) ==
  IF FrameOf[p] # NoFrame THEN Append(nums, FrameOf[p]) ELSE nums

\* _add_frame, third statement: keep the path as a training sample
add_frame_sample(samples, trained, p) ==
  IF ~trained /\ Len(samples) < DictSampleCap THEN Append(samples, p)
  ELSE samples

\* variant of batch_size_reached that needs more files than the batch size
batch_size_exceeded(n, size) == n > size

\* len(self._pending_frames) >= self._batch_size
batch_size_reached(n, size) == n >= size

\* the test that ends an iteration of _run:
\* if len(self._pending_frames) >= self._batch_size: self._compress_batch()
WorkerCheck ==
  IF batch_size_reached(Len(pending_frames), batch_size)
  THEN /\ wk_pc' = "compress"
       /\ c_pc' = [c_pc EXCEPT !["w"] = "begin"]
  ELSE /\ wk_pc' = "get"
       /\ UNCHANGED c_pc

\* frame_queue.get / get_nowait returned a path: _add_frame starts with
\* _pending_frames.append(path)
WorkerTake ==
  /\ frame_queue' = Tail(frame_queue)
  /\ pending_frames' = add_frame_path(pending_frames, Head(frame_queue))
  /\ wk_path' = Head(frame_queue)
  /\ wk_pc' = "add"
  /\ UNCHANGED c_pc

\* _run: one pass of the loop head. The stop event ends the loop; else
\* frame_queue.get(timeout=BATCH_INTERVAL) returns a path, or raises Empty,
\* after which the drain loop finds the queue empty and the size test follows
\* (an iteration that times out below the batch size changes nothing)
WorkerGet ==
  /\ wk_pc = "get"
  /\ IF comp_stop
     THEN /\ wk_pc' = "final"
          /\ UNCHANGED <<frame_queue, pending_frames, wk_path, c_pc>>
     ELSE IF frame_queue # << >>
     THEN WorkerTake
     ELSE /\ batch_size_reached(Len(pending_frames), batch_size)
          /\ WorkerCheck
          /\ UNCHANGED <<frame_queue, pending_frames, wk_path>>
  /\ UNCHANGED <<fsVars, watcherVars, batch_queue, pending_frame_numbers,
                 dict_training_samples, dict_trained, batch_size, comp_stop,
                 c_frames, c_nums, c_batch, dictVars, upVars, ledgerVars,
                 mainVars, messages, histVars, psVars, szVars, mpVars, fcVars, csVars, up_tried>>

\* _add_frame after the append of the path: the frame number and the sample
WorkerAdd ==
  /\ wk_pc = "add"
  /\ pending_frame_numbers' = add_frame_number(pending_frame_numbers, wk_path)
  /\ dict_training_samples' =
       add_frame_sample(dict_training_samples, dict_trained, wk_path)
  /\ wk_pc' = "drain"
  /\ wk_path' = 0
  /\ UNCHANGED <<fsVars, watcherVars, frame_queue, batch_queue, pending_frames,
                 dict_trained, batch_size, comp_stop,
                 c_pc, c_frames, c_nums, c_batch, dictVars, upVars, ledgerVars,
                 mainVars, messages, histVars, psVars, szVars, mpVars, fcVars, csVars, up_tried>>

\* _run: while not frame_queue.empty(): get_nowait(); then the size test
WorkerDrain ==
  /\ wk_pc = "drain"
  /\ IF frame_queue # << >>
     THEN WorkerTake
     ELSE /\ WorkerCheck
          /\ UNCHANGED <<frame_queue, pending_frames, wk_path>>
  /\ UNCHANGED <<fsVars, watcherVars, batch_queue, pending_frame_numbers,
                 dict_training_samples, dict_trained, batch_size, comp_stop,
                 c_frames, c_nums, c_batch, dictVars, upVars, ledgerVars,
                 mainVars, messages, histVars, psVars, szVars, mpVars, fcVars, csVars, up_tried>>

\* _run after the loop: flush of what is pending
WorkerFinal ==
  /\ wk_pc = "final"
  /\ IF pending_frames # << >>
     THEN /\ wk_pc' = "final_compress"
          /\ c_pc' = [c_pc EXCEPT !["w"] = "begin"]
     ELSE /\ wk_pc' = "exited"
          /\ UNCHANGED c_pc
  /\ UNCHANGED <<fsVars, watcherVars, frame_queue, batch_queue, pending_frames,
                 pending_frame_numbers, dict_training_samples, dict_trained,
                 batch_size, comp_stop, wk_path, c_frames, c_nums, c_batch,
                 dictVars, upVars, ledgerVars, mainVars, messages, histVars,
                 psVars, szVars, mpVars, fcVars, csVars, up_tried>>

\* _compress_batch: the guard and the test whether to train the dictionary
CompBegin(ctx) ==
  /\ c_pc[ctx] = "begin"
  /\ IF pending_frames = << >>
     THEN CompReturn(ctx)
     ELSE /\ CompGoto(ctx,
               IF ~dict_trained
                  /\ Len(dict_training_samples) >= ZSTD_MIN_TRAINING_SAMPLES
               THEN "train" ELSE "copy1")
          /\ UNCHANGED <<c_frames, c_nums, c_batch>>
  /\ UNCHANGED <<fsVars, watcherVars, frame_queue, batch_queue, pending_frames,
                 pending_frame_numbers, dict_training_samples, dict_trained,
                 batch_size, comp_stop, wk_path, dictVars, upVars, ledgerVars,
                 finalized, timed_out, f_waited, messages, histVars, psVars, szVars, mpVars, fcVars, csVars, up_tried>>

\* _compress_batch: dict_manager.train, save_to_file, _dict_trained = True
CompTrain(ctx) ==
  /\ c_pc[ctx] = "train"
  /\ \E success \in BOOLEAN :
       /\ Fault(~success)
       /\ dict_trains' = dict_trains + 1
       /\ dm_trained' = (dm_trained \/ success)
       /\ dict_saves' = IF success THEN dict_saves + 1 ELSE dict_saves
       /\ dict_trained' = (dict_trained \/ success)
  /\ CompGoto(ctx, "copy1")
  /\ UNCHANGED <<fsVars, watcherVars, frame_queue, batch_queue, pending_frames,
                 pending_frame_numbers, dict_training_samples,
                 batch_size, comp_stop, wk_path, c_frames, c_nums, c_batch,
                 dict_uploads, upVars, ledgerVars,
                 finalized, timed_out, f_waited, messages, enq_count, admitted, f_enq, batch_files, psVars, szVars, mpVars, fcVars, csVars, up_tried>>

\* frames_to_compress = self._pending_frames[:]
CompCopyFrames(ctx) ==
  /\ c_pc[ctx] = "copy1"
  /\ c_frames' = [c_frames EXCEPT ![ctx] = pending_frames]
  /\ CompGoto(ctx, "copy2")
  /\ UNCHANGED <<fsVars, watcherVars, frame_queue, batch_queue, pending_frames,
                 pending_frame_numbers, dict_training_samples, dict_trained,
                 batch_size, comp_stop, wk_path, c_nums, c_batch,
                 dictVars, upVars, ledgerVars,
                 finalized, timed_out, f_waited, messages, histVars, psVars, szVars, mpVars, fcVars, csVars, up_tried>>

\* frame_numbers = self._pending_frame_numbers[:]
CompCopyNumbers(ctx) ==
  /\ c_pc[ctx] = "copy2"
  /\ c_nums' = [c_nums EXCEPT ![ctx] = pending_frame_numbers]
  /\ CompGoto(ctx, "clear1")
  /\ UNCHANGED <<fsVars, watcherVars, frame_queue, batch_queue, pending_frames,
                 pending_frame_numbers, dict_training_samples, dict_trained,
                 batch_size, comp_stop, wk_path, c_frames, c_batch,
                 dictVars, upVars, ledgerVars,
                 finalized, timed_out, f_waited, messages, histVars, psVars, szVars, mpVars, fcVars, csVars, up_tried>>

\* self._pending_frames.clear()
CompClearFrames(ctx) ==
  /\ c_pc[ctx] = "clear1"
  /\ pending_frames' = << >>
  /\ CompGoto(ctx, "clear2")
  /\ UNCHANGED <<fsVars, watcherVars, frame_queue, batch_queue,
                 pending_frame_numbers, dict_training_samples, dict_trained,
                 batch_size, comp_stop, wk_path, c_frames, c_nums, c_batch,
                 dictVars, upVars, ledgerVars,
                 finalized, timed_out, f_waited, messages, histVars, psVars, szVars, mpVars, fcVars, csVars, up_tried>>

\* self._pending_frame_numbers.clear()
CompClearNumbers(ctx) ==
  /\ c_pc[ctx] = "clear2"
  /\ pending_frame_numbers' = << >>
  /\ CompGoto(ctx, "create")
  /\ UNCHANGED <<fsVars, watcherVars, frame_queue, batch_queue,
                 pending_frames, dict_training_samples, dict_trained,
                 batch_size, comp_stop, wk_path, c_frames, c_nums, c_batch,
                 dictVars, upVars, ledgerVars,
                 finalized, timed_out, f_waited, messages, histVars, psVars, szVars, mpVars, fcVars, csVars, up_tried>>

\* batch = self.progress.create_batch(frame_numbers)
CompCreate(ctx) ==
  /\ c_pc[ctx] = "create"
  /\ batches' = create_batch(batches, c_nums[ctx])
  /\ c_batch' = [c_batch EXCEPT ![ctx] = Len(batches')]
  /\ batch_files' = Append(batch_files, c_frames[ctx])
  /\ CompGoto(ctx, "compress")
  /\ UNCHANGED <<fsVars, watcherVars, frame_queue, batch_queue, pending_frames,
                 pending_frame_numbers, dict_training_samples, dict_trained,
                 batch_size, comp_stop, wk_path, c_frames, c_nums,
                 dictVars, upVars, baked_frames, secured_frames,
                 finalized, timed_out, f_waited, messages, enq_count, admitted, f_enq, faults_left, psVars, szVars, mpVars, fcVars, csVars, up_tried>>

\* compress_batch(frames_to_compress, ...): the raw size read, or an exception
\* when a file cannot be read
raw_size_of(files) ==
  IF \E i \in 1..Len(files) : fsize[files[i]] = Absent THEN Absent
  ELSE SumOver([i \in 1..Len(files) |-> fsize[files[i]]], 1..Len(files))

\* variant of queue_after_compress with the put after the try block
queue_after_compress_always(q, item, ok) == Append(q, item)

\* batch_queue.put((batch_id, compressed, frame_numbers)) is inside the try
\* block: it runs only when compress_batch returned
queue_after_compress(q, item, ok) == IF ok THEN Append(q, item) ELSE q

\* variant of pending_after_compress that returns the files of a batch whose
\* compression failed to the pending list
pending_after_compress_retry(pend, files, ok) ==
  IF ok THEN pend ELSE pend \o files

\* neither the try block nor the except block of _compress_batch touches
\* _pending_frames: the files of the batch are not pending any more
pending_after_compress(pend, files, ok) == pend

\* the try block of _compress_batch up to batch_queue.put, and its except
CompCompress(ctx) ==
  /\ c_pc[ctx] = "compress"
  /\ \E ok \in BOOLEAN, comp \in 1..MaxCompressed :
       LET raw == raw_size_of(c_frames[ctx])
           id == c_batch[ctx]
       IN  /\ Fault(~ok)
           /\ pending_frames' = pending_after_compress(pending_frames,
                                   c_frames[ctx], ok /\ raw # Absent)
           /\ IF ok /\ raw # Absent
              THEN /\ batches' = register_compressed(batches, id, comp, raw)
                   /\ batch_queue' = queue_after_compress(batch_queue,
                        [id |-> id, size |-> comp, frames |-> c_nums[ctx]],
                        TRUE)
                   /\ CompGoto(ctx, "update")
                   /\ UNCHANGED <<c_frames, c_nums, c_batch>>
              ELSE /\ batches' = register_batch_failed(batches, id)
                   /\ batch_queue' = queue_after_compress(batch_queue,
                        [id |-> id, size |-> comp, frames |-> c_nums[ctx]],
                        FALSE)
                   /\ CompReturn(ctx)
  /\ UNCHANGED <<fsVars, watcherVars, frame_queue,
                 pending_frame_numbers, dict_training_samples, dict_trained,
                 batch_size, comp_stop, wk_path,
                 dictVars, upVars, baked_frames, secured_frames,
                 finalized, timed_out, f_waited, messages, enq_count, admitted, f_enq, batch_files, psVars, szVars, mpVars, fcVars, csVars, up_tried>>

\* self.update_batch_size() and the return
CompUpdate(ctx) ==
  /\ c_pc[ctx] = "update"
  /\ batch_size' = update_batch_size(upload_speed_bps(batches),
                     compression_ratio(batches), batches, batch_size)
  /\ CompReturn(ctx)
  /\ UNCHANGED <<fsVars, watcherVars, frame_queue, batch_queue, pending_frames,
                 pending_frame_numbers, dict_training_samples, dict_trained,
                 comp_stop, wk_path,
                 dictVars, upVars, ledgerVars,
                 finalized, timed_out, f_waited, messages, histVars, psVars, szVars, mpVars, fcVars, csVars, up_tried>>

\* ------------------------------------------------------------- Batch Uploader
\* decimal digits of a natural number, most significant first
RECURSIVE DigitsOf(_)
DigitsOf(n) ==
  IF n < 10 THEN <<Digits[n + 1]>>
  ELSE Append(DigitsOf(n \div 10), Digits[(n % 10) + 1])

\* f"{batch_id:04d}": zero-padded to at least four digits
Pad4(n) ==
  LET ds == DigitsOf(n)
  IN  IF Len(ds) >= 4 THEN ds
      ELSE [i \in 1..(4 - Len(ds)) |-> "0"] \o ds

\* variant of r2_key that keeps the last four digits of the id only
r2_key_last4(id) ==
  <<"b","a","t","c","h","_">> \o Pad4(id % 10000)
    \o <<".","t","a","r",".","z","s","t">>

\* r2_key = f"{cache_prefix}batch_{batch_id:04d}.tar.zst" (after the prefix)
r2_key(id) ==
  <<"b","a","t","c","h","_">> \o Pad4(id) \o <<".","t","a","r",".","z","s","t">>

NoItem == [id |-> 0, size |-> 0, frames |-> << >>]

\* variant of uploader_tests_stop in which the stop event is also tested
\* while an upload is under way
uploader_tests_stop_anywhere(pc) == pc \in {"get", "upload"}

\* BatchUploader._run tests _stop_event in the while condition only, that is
\* before each batch_queue.get
uploader_tests_stop(pc) == pc = "get"

\* _run: batch_queue.get(timeout=1.0) at the head of the loop, and the call
\* of _upload_batch for the item taken
UploaderGet ==
  /\ IF up_stop THEN uploader_tests_stop(up_pc) ELSE up_pc = "get"
  /\ IF up_stop
     THEN /\ up_pc' = "exited"
          /\ UNCHANGED <<batch_queue, up_item, up_tried>>
     ELSE /\ batch_queue # << >>
          /\ up_item' = Head(batch_queue)
          /\ batch_queue' = Tail(batch_queue)
          /\ up_tried' = Append(up_tried, Head(batch_queue).id)
          /\ up_pc' = "upload"
  /\ UNCHANGED <<fsVars, watcherVars, frame_queue, compVars, dictVars, up_stop,
                 ledgerVars, mainVars, messages, histVars, psVars, szVars,
                 mpVars, fcVars, csVars>>

\* variant of queue_after_upload that puts a batch whose upload failed back
\* on the batch queue
queue_after_upload_retry(q, item, ok) == IF ok THEN q ELSE Append(q, item)

\* the batch queue after _upload_batch: neither the success path nor the
\* except clause puts the batch back
queue_after_upload(q, item, ok) == q

\* _upload_batch: the upload (put_object or _multipart_upload), then
\* register_secured, or register_batch_failed when the upload raised
UploaderUpload ==
  /\ up_pc = "upload"
  /\ \E ok \in BOOLEAN, duration \in 1..MaxDuration :
       /\ Fault(~ok)
       /\ batch_queue' = queue_after_upload(batch_queue, up_item, ok)
       /\ IF ok
          THEN /\ batches' = register_secured(batches, up_item.id, duration)
               /\ secured_frames' = secured_after(secured_frames, batches, up_item.id)
               /\ up_pc' = "notify"
               /\ UNCHANGED up_item
          ELSE /\ batches' = register_batch_failed(batches, up_item.id)
               /\ up_pc' = "get"
               /\ up_item' = NoItem
               /\ UNCHANGED secured_frames
  /\ UNCHANGED <<fsVars, watcherVars, frame_queue, compVars,
                 dictVars, up_stop, baked_frames, mainVars, messages,
                 enq_count, admitted, f_enq, batch_files,
                 psVars, szVars, mpVars, fcVars, csVars, up_tried>>

\* BatchUploader.start(): _upload_batch runs on a plain threading.Thread named
\* "Uploader"; nothing sets an asyncio event loop for that thread
UploaderLoop == "none"

\* variant of notify_secured without the try/except around the send
notify_secured_uncaught(loop) == IF loop = "none" THEN "raised" ELSE "sent"

\* _notify_secured(batch_id, r2_key, frame_numbers, duration), by the event
\* loop of the calling thread. asyncio.get_event_loop() raises RuntimeError in
\* a thread other than the main one that has no current event loop.
\*   "sent"    the message went to ws_client.send
\*   "caught"  the exception was caught and logged inside _notify_secured
\*   "raised"  the exception reaches _upload_batch
notify_secured(loop) == IF loop = "none" THEN "caught" ELSE "sent"

secured_message(item, bs) ==
  [type |-> "PROGRESS_SECURED", frames |-> item.frames, batchId |-> item.id,
   r2Key |-> r2_key(item.id),
   uploadSpeedBps |-> upload_speed_bps(bs).n \div upload_speed_bps(bs).d]

\* _upload_batch: the notification after register_secured, and the except
\* clause of _upload_batch for whatever it lets through
UploaderNotify ==
  /\ up_pc = "notify"
  /\ LET r == notify_secured(UploaderLoop)
     IN  /\ messages' = IF r = "sent"
                        THEN Append(messages, secured_message(up_item, batches))
                        ELSE messages
         /\ batches' = IF r = "raised"
                       THEN register_batch_failed(batches, up_item.id)
                       ELSE batches
  /\ up_pc' = "get"
  /\ up_item' = NoItem
  /\ UNCHANGED <<fsVars, watcherVars, frame_queue, batch_queue, compVars,
                 dictVars, up_stop, baked_frames, secured_frames, mainVars,
                 histVars, psVars, szVars, mpVars, fcVars, csVars, up_tried>>

\* ------------------------------------------------------ Pipeline Orchestrator
\* Pipeline.start(): watcher.start(), compressor.start(), uploader.start()
PipelineStart ==
  /\ m_pc = "new"
  /\ WatcherStart
  /\ wk_pc' = "get"
  /\ up_pc' = "get"
  /\ m_pc' = "running"
  /\ UNCHANGED <<fsVars, already_secured, w_pc, w_path, w_last, w_waited,
                 batch_queue, pending_frames, pending_frame_numbers,
                 dict_training_samples, dict_trained, batch_size, comp_stop,
                 wk_path, c_pc, c_frames, c_nums, c_batch, dictVars,
                 up_stop, up_item, secured_frames, batches,
                 finalized, timed_out, f_waited, messages, psVars, szVars, mpVars, fcVars, csVars, up_tried>>

\* Pipeline.finalize() up to compressor.flush(): if self._pending_frames
FinalizeFlush ==
  /\ m_pc = "running"
  /\ ~finalized
  /\ f_enq' = {p \in Paths : enq_count[p] > 0}
  /\ IF pending_frames # << >>
     THEN /\ m_pc' = "f_compress"
          /\ c_pc' = [c_pc EXCEPT !["m"] = "begin"]
     ELSE /\ m_pc' = "f_wait"
          /\ UNCHANGED c_pc
  /\ UNCHANGED <<fsVars, watcherVars, frame_queue, batch_queue, pending_frames,
                 pending_frame_numbers, dict_training_samples, dict_trained,
                 batch_size, comp_stop, wk_pc, wk_path, c_frames, c_nums,
                 c_batch, dictVars, upVars, ledgerVars, finalized, timed_out,
                 f_waited,
                 messages, enq_count, admitted, batch_files, faults_left, psVars, szVars, mpVars, fcVars, csVars, up_tried>>

\* variant of finalize_wait_poll without the timeout
finalize_wait_poll_unbounded(empty, waited) ==
  IF ~empty THEN "sleep" ELSE "exit"

\* Pipeline.finalize(): while not self._batch_queue.empty() and waited <
\* timeout, with waited counted in sleeps of 0.5 s
finalize_wait_poll(empty, waited) ==
  IF ~empty /\ waited < FinalizeWaitPolls THEN "sleep" ELSE "exit"

\* Pipeline.finalize(): one test of the wait loop: sleep 0.5 s and count it,
\* or leave the loop because the batch queue is empty or the timeout is reached
FinalizeWait ==
  /\ m_pc = "f_wait"
  /\ IF finalize_wait_poll(batch_queue = << >>, f_waited) = "sleep"
     THEN /\ f_waited' = Min(f_waited + 1, FinalizeWaitPolls)
          /\ UNCHANGED <<m_pc, timed_out>>
     ELSE /\ m_pc' = "f_dict"
          /\ timed_out' = IF batch_queue = << >> THEN timed_out
                          ELSE timed_out \cup {"finalize"}
          /\ f_waited' = 0
  /\ UNCHANGED <<fsVars, watcherVars, frame_queue, batch_queue, compVars,
                 dictVars, upVars, ledgerVars, finalized, messages, histVars,
                 psVars, szVars, mpVars, fcVars, csVars, up_tried>>

\* Pipeline.finalize(): upload of the dictionary if trained, and the return
FinalizeDict ==
  /\ m_pc = "f_dict"
  /\ dict_uploads' = IF dm_trained THEN dict_uploads + 1 ELSE dict_uploads
  /\ m_pc' = "running"
  /\ finalized' = TRUE
  /\ UNCHANGED <<fsVars, watcherVars, frame_queue, batch_queue, compVars,
                 dm_trained, dict_trains, dict_saves, upVars, ledgerVars,
                 timed_out, f_waited, messages, histVars, psVars, szVars,
                 mpVars, fcVars, csVars, up_tried>>

\* Pipeline.stop(): _stop_event.set() and watcher.stop() up to the join
StopWatcher ==
  /\ m_pc = "running"
  /\ WatcherStop
  /\ m_pc' = "s_watch_join"
  /\ UNCHANGED <<finalized, timed_out, f_waited>>

\* variant of watcher_joined in which stop() does not join the observer
watcher_joined_nowait(pc) == TRUE

\* FrameWatcher.stop(): observer.join(timeout=5) returns when the observer
\* thread has left the handler it was in; one handler lasts at most
\* WaitStablePolls polls of 0.3 s
watcher_joined(pc) == pc = "idle"

\* watcher.stop() returns once the observer thread has left its handler;
\* then compressor.stop() sets the compressor's stop event
StopCompressor ==
  /\ m_pc = "s_watch_join"
  /\ watcher_joined(w_pc)
  /\ comp_stop' = TRUE
  /\ m_pc' = "s_comp_join"
  /\ UNCHANGED <<fsVars, watcherVars, frame_queue, batch_queue, pending_frames,
                 pending_frame_numbers, dict_training_samples, dict_trained,
                 batch_size, wk_pc, wk_path, c_pc, c_frames, c_nums, c_batch,
                 dictVars, upVars, ledgerVars, finalized, timed_out, f_waited, messages,
                 histVars, psVars, szVars, mpVars, fcVars, csVars, up_tried>>

\* compressor.stop(): _thread.join(timeout=10) returns, the thread has exited
\* or not; then uploader.stop() sets the uploader's stop event
StopUploader ==
  /\ m_pc = "s_comp_join"
  /\ up_stop' = TRUE
  /\ Fault(wk_pc # "exited")
  /\ m_pc' = "s_up_join"
  /\ timed_out' = IF wk_pc = "exited" THEN timed_out
                  ELSE timed_out \cup {"join_compressor"}
  /\ UNCHANGED <<fsVars, watcherVars, frame_queue, batch_queue, compVars,
                 dictVars, up_pc, up_item, ledgerVars, finalized, f_waited,
                 messages,
                 enq_count, admitted, f_enq, batch_files, psVars, szVars, mpVars, fcVars, csVars, up_tried>>

\* uploader.stop(): _thread.join(timeout=30) returns; Pipeline.stop() returns
StopReturn ==
  /\ m_pc = "s_up_join"
  /\ m_pc' = "stopped"
  /\ Fault(up_pc # "exited")
  /\ timed_out' = IF up_pc = "exited" THEN timed_out
                  ELSE timed_out \cup {"join_uploader"}
  /\ UNCHANGED <<fsVars, watcherVars, frame_queue, batch_queue, compVars,
                 dictVars, upVars, ledgerVars, finalized, f_waited, messages,
                 enq_count, admitted, f_enq, batch_files,
                 psVars, szVars, mpVars, fcVars, csVars, up_tried>>

\* ------------------------------------------------- PresignedUploader.upload_file
\* what one PUT can end in: a response with a status, urllib.error.HTTPError,
\* urllib.error.URLError, or an exception of another class (a timeout while
\* the response is read, a dropped connection)
PutOutcomes == {"200", "201", "204", "202", "206", "HTTPError", "URLError",
                "Other"}

\* what upload_file does with the outcome of a PUT:
\*   "ok"        resp.status in (200, 201, 204)
\*   "retry"     RuntimeError for another status, HTTPError, URLError: caught
\*   "propagate" any other exception leaves upload_file
put_result(outcome) ==
  IF outcome \in {"200", "201", "204"} THEN "ok"
  ELSE IF outcome \in {"202", "206", "HTTPError", "URLError"} THEN "retry"
  ELSE "propagate"

\* variant of retry_delay with a fixed delay
retry_delay_fixed(attempt) == 1

\* delay = 2 ** (attempt - 1)
retry_delay(attempt) == 2 ^ (attempt - 1)

\* upload_file up to the loop: a missing file returns False at once
PresignedCall ==
  /\ ps_pc = "call"
  /\ IF ps_exists
     THEN /\ ps_attempt' = 1
          /\ ps_pc' = "put"
          /\ UNCHANGED ps_result
     ELSE /\ ps_result' = "false"
          /\ ps_pc' = "done"
          /\ UNCHANGED ps_attempt
  /\ UNCHANGED <<ps_exists, ps_puts, ps_log, ps_sleeps>>
  /\ UNCHANGED <<fsVars, watcherVars, frame_queue, batch_queue, compVars,
                 dictVars, upVars, ledgerVars, mainVars, messages, histVars,
                 szVars, mpVars, fcVars, csVars, up_tried>>

\* one pass of the loop body: the PUT, then return True, or the except clause
PresignedPut ==
  /\ ps_pc = "put"
  /\ \E outcome \in PutOutcomes :
       /\ ps_puts' = ps_puts + 1
       /\ ps_log' = Append(ps_log, outcome)
       /\ CASE put_result(outcome) = "ok" ->
                 /\ ps_result' = "true"
                 /\ ps_pc' = "done"
                 /\ UNCHANGED ps_sleeps
            [] put_result(outcome) = "propagate" ->
                 /\ ps_result' = "raised"
                 /\ ps_pc' = "done"
                 /\ UNCHANGED ps_sleeps
            [] put_result(outcome) = "retry" ->
                 IF ps_attempt < DefaultMaxRetries
                 THEN /\ ps_sleeps' = Append(ps_sleeps, retry_delay(ps_attempt))
                      /\ ps_pc' = "sleep"
                      /\ UNCHANGED ps_result
                 ELSE /\ ps_result' = "false"
                      /\ ps_pc' = "done"
                      /\ UNCHANGED ps_sleeps
  /\ UNCHANGED <<ps_exists, ps_attempt>>
  /\ UNCHANGED <<fsVars, watcherVars, frame_queue, batch_queue, compVars,
                 dictVars, upVars, ledgerVars, mainVars, messages, histVars,
                 szVars, mpVars, fcVars, csVars, up_tried>>

\* time.sleep(delay) returns and the loop takes the next attempt
PresignedSleep ==
  /\ ps_pc = "sleep"
  /\ ps_attempt' = ps_attempt + 1
  /\ ps_pc' = "put"
  /\ UNCHANGED <<ps_exists, ps_puts, ps_log, ps_sleeps, ps_result>>
  /\ UNCHANGED <<fsVars, watcherVars, frame_queue, batch_queue, compVars,
                 dictVars, upVars, ledgerVars, mainVars, messages, histVars,
                 szVars, mpVars, fcVars, csVars, up_tried>>

\* ------------------------------------------------------------ adaptive sizing
\* self.update_batch_size() for the speed, the ratio and the ledger at hand
SizingUpdate ==
  /\ ~sz_done
  /\ batch_size' = update_batch_size(sz_speed, sz_ratio, batches, batch_size)
  /\ sz_done' = TRUE
  /\ UNCHANGED <<sz_speed, sz_ratio>>
  /\ UNCHANGED <<fsVars, watcherVars, frame_queue, batch_queue, pending_frames,
                 pending_frame_numbers, dict_training_samples, dict_trained,
                 comp_stop, wk_pc, wk_path, c_pc, c_frames, c_nums, c_batch,
                 dictVars, upVars, ledgerVars, mainVars, messages, histVars,
                 psVars, mpVars, fcVars, csVars, up_tried>>

\* ------------------------------------------- _upload_batch / _multipart_upload
\* every other state variable stays as it is
MultipartFrame ==
  UNCHANGED <<fsVars, watcherVars, frame_queue, batch_queue, compVars,
              dictVars, upVars, ledgerVars, mainVars, messages, histVars,
              psVars, szVars, fcVars, csVars, up_tried>>

\* one S3 client call as recorded in mp_calls: the operation, the PartNumber
\* and the slice data[lo:hi] it carries (0 when it has none), and whether it
\* returned (ok) or raised
S3Call(op, part, lo, hi, ok) ==
  [op |-> op, part |-> part, lo |-> lo, hi |-> hi, ok |-> ok]

\* chunk = data[offset:offset + chunk_size]: the end of the slice
chunk_end(offset, size) == Min(offset + S3_MULTIPART_CHUNK_SIZE, size)

\* variant of after_upload_part in which a failed part is skipped
after_upload_part_skip(ok) == "loop"

\* where _multipart_upload goes after upload_part: on with the loop, or to
\* the except clause when the call raised
after_upload_part(ok) == IF ok THEN "loop" ELSE "abort"

\* _upload_batch: if len(data) > Config.S3_MULTIPART_THRESHOLD
MultipartChoose ==
  /\ mp_pc = "call"
  /\ mp_pc' = IF mp_size > S3_MULTIPART_THRESHOLD THEN "create" ELSE "put"
  /\ UNCHANGED <<mp_size, mp_offset, mp_part_number, mp_parts, mp_calls,
                 mp_status>>
  /\ MultipartFrame

\* _upload_batch: put_object, then register_secured, or register_batch_failed
\* in the except clause
MultipartPutObject ==
  /\ mp_pc = "put"
  /\ \E ok \in BOOLEAN :
       /\ mp_calls' = Append(mp_calls, S3Call("put_object", 0, 0, mp_size, ok))
       /\ mp_status' = IF ok THEN "confirmed" ELSE "failed"
  /\ mp_pc' = "done"
  /\ UNCHANGED <<mp_size, mp_offset, mp_part_number, mp_parts>>
  /\ MultipartFrame

\* _multipart_upload: create_multipart_upload, outside the try block: when it
\* raises, nothing is aborted and _upload_batch marks the batch failed
MultipartCreate ==
  /\ mp_pc = "create"
  /\ \E ok \in BOOLEAN :
       /\ mp_calls' = Append(mp_calls,
                              S3Call("create_multipart_upload", 0, 0, 0, ok))
       /\ mp_pc' = IF ok THEN "loop" ELSE "done"
       /\ mp_status' = IF ok THEN mp_status ELSE "failed"
  /\ mp_offset' = 0
  /\ mp_part_number' = 1
  /\ mp_parts' = << >>
  /\ UNCHANGED mp_size
  /\ MultipartFrame

\* _multipart_upload: one turn of while offset < len(data): upload_part and
\* the bookkeeping after it; complete_multipart_upload once the loop is over
MultipartLoop ==
  /\ mp_pc = "loop"
  /\ IF mp_offset < mp_size
     THEN \E ok \in BOOLEAN :
            /\ mp_calls' = Append(mp_calls,
                                  S3Call("upload_part", mp_part_number, mp_offset,
                                         chunk_end(mp_offset, mp_size), ok))
            /\ mp_pc' = after_upload_part(ok)
            /\ mp_parts' = IF ok THEN Append(mp_parts, mp_part_number)
                           ELSE mp_parts
            /\ mp_offset' = IF ok THEN mp_offset + S3_MULTIPART_CHUNK_SIZE
                            ELSE mp_offset
            /\ mp_part_number' = IF ok THEN mp_part_number + 1
                                 ELSE mp_part_number
            /\ UNCHANGED mp_status
     ELSE \E ok \in BOOLEAN :
            /\ mp_calls' = Append(mp_calls,
                                  S3Call("complete_multipart_upload", 0, 0, 0, ok))
            /\ mp_pc' = IF ok THEN "done" ELSE "abort"
            /\ mp_status' = IF ok THEN "confirmed" ELSE mp_status
            /\ UNCHANGED <<mp_parts, mp_offset, mp_part_number>>
  /\ UNCHANGED mp_size
  /\ MultipartFrame

\* _multipart_upload: except Exception: abort_multipart_upload, raise; the
\* exception (of the try block, or of the abort call when that raises)
\* reaches the except clause of _upload_batch: register_batch_failed
MultipartAbort ==
  /\ mp_pc = "abort"
  /\ \E ok \in BOOLEAN :
       mp_calls' = Append(mp_calls,
                          S3Call("abort_multipart_upload", 0, 0, 0, ok))
  /\ mp_status' = "failed"
  /\ mp_pc' = "done"
  /\ UNCHANGED <<mp_size, mp_offset, mp_part_number, mp_parts>>
  /\ MultipartFrame

\* ------------------------------------------------------------ specifications
InitIdle ==
  /\ events = {}
  /\ started = FALSE
  /\ observing = FALSE
  /\ seen_files = {}
  /\ w_pc = "idle" /\ w_path = 0 /\ w_last = -1 /\ w_waited = 0
  /\ frame_queue = << >>
  /\ batch_queue = << >>
  /\ pending_frames = << >>
  /\ pending_frame_numbers = << >>
  /\ dict_training_samples = << >>
  /\ dict_trained = FALSE
  /\ batch_size = DEFAULT_BATCH_SIZE
  /\ comp_stop = FALSE
  /\ wk_pc = "off" /\ wk_path = 0
  /\ c_pc = [c \in Ctx |-> "idle"]
  /\ c_frames = [c \in Ctx |-> << >>]
  /\ c_nums = [c \in Ctx |-> << >>]
  /\ c_batch = [c \in Ctx |-> 0]
  /\ dict_trains = 0 /\ dict_saves = 0 /\ dict_uploads = 0
  /\ up_stop = FALSE /\ up_pc = "off" /\ up_item = NoItem
  /\ m_pc = "new" /\ finalized = FALSE /\ timed_out = {} /\ f_waited = 0
  /\ messages = << >>
  /\ enq_count = [p \in Paths |-> 0]
  /\ admitted = [p \in Paths |-> "no"]
  /\ f_enq = {}
  /\ batch_files = << >>
  /\ up_tried = << >>

InitPresignedOff ==
  /\ ps_exists = FALSE
  /\ ps_pc = "off" /\ ps_attempt = 0 /\ ps_puts = 0 /\ ps_log = << >>
  /\ ps_sleeps = << >> /\ ps_result = "none"

InitSizingOff ==
  /\ sz_speed = [n |-> 0, d |-> 1] /\ sz_ratio = [n |-> 0, d |-> 1]
  /\ sz_done = FALSE

InitMultipartOff ==
  /\ mp_pc = "off" /\ mp_size = 0 /\ mp_offset = 0 /\ mp_part_number = 0
  /\ mp_parts = << >> /\ mp_calls = << >> /\ mp_status = "none"

InitCodecOff ==
  /\ fc_conv = 0 /\ fc_frame = 0 /\ fc_width = 0 /\ fc_name = << >>
  /\ fc_result = NotRun

\* CacheStreamer.__init__, start() not called
InitStreamerOff ==
  /\ cs_fsize = [f \in CsFiles |-> Absent]
  /\ cs_pending = << >>
  /\ cs_queued = {} /\ cs_uploaded = {} /\ cs_failed = {}
  /\ cs_upload_queue = << >>
  /\ cs_pc = "off" /\ cs_file = 0 /\ cs_result = "none"
  /\ cs_request = << >> /\ cs_asked = {}
  /\ cs_retry = [f \in CsFiles |-> "none"]
  /\ cs_fin = "off" /\ cs_fin_timed_out = {}

\* the watcher on its own, under a producer that writes without limit
InitWatcher ==
  /\ InitIdle /\ InitPresignedOff /\ InitSizingOff /\ InitMultipartOff
  /\ InitCodecOff /\ InitStreamerOff
  /\ writable = 1..NumWatched
  /\ fsize \in {f \in [Paths -> {Absent} \cup 0..MaxSize] :
                  \A p \in Paths \ writable : f[p] = Absent}
  /\ writes_left = -1
  /\ faults_left = 0
  /\ already_secured \in SUBSET SeedFrames
  /\ dm_trained = FALSE
  /\ LedgerInit(already_secured)

WatcherStartOnly ==
  /\ WatcherStart
  /\ UNCHANGED <<fsVars, already_secured, w_pc, w_path, w_last, w_waited,
                 secured_frames, batches, downstreamVars>>

NextWatcher ==
  \/ WatcherStartOnly
  \/ \E p \in Paths : WatcherDispatch(p)
  \/ WatcherPoll
  \/ WatcherStop /\ UNCHANGED mainVars
  \/ \E p \in Paths, s \in 0..MaxSize : ProducerWrite(p, s)
  \/ \E p \in Paths : ProducerDelete(p)

SpecWatcher == InitWatcher /\ [][NextWatcher]_vars

\* the running pipeline: the cache root starts empty or with its first file,
\* the producer performs at most MaxWrites writes, nobody calls finalize() or
\* stop()
Init ==
  /\ InitIdle /\ InitPresignedOff /\ InitSizingOff /\ InitMultipartOff
  /\ InitCodecOff /\ InitStreamerOff
  /\ writable = Paths
  /\ fsize \in {f \in [Paths -> {Absent, 1}] :
                  \A p \in Paths \ {1} : f[p] = Absent}
  /\ writes_left = MaxWrites
  /\ faults_left = MaxFaults
  /\ already_secured \in SUBSET SeedFrames
  /\ dm_trained = FALSE
  /\ LedgerInit(already_secured)

Next ==
  \/ PipelineStart
  \/ \E p \in Paths : WatcherDispatch(p)
  \/ WatcherPoll
  \/ \E p \in Paths, s \in 0..MaxSize : ProducerWrite(p, s)
  \/ \E p \in Paths : ProducerDelete(p)
  \/ WorkerGet
  \/ WorkerAdd
  \/ WorkerDrain
  \/ \E ctx \in Ctx : CompBegin(ctx)
  \/ \E ctx \in Ctx : CompTrain(ctx)
  \/ \E ctx \in Ctx : CompCopyFrames(ctx)
  \/ \E ctx \in Ctx : CompCopyNumbers(ctx)
  \/ \E ctx \in Ctx : CompClearFrames(ctx)
  \/ \E ctx \in Ctx : CompClearNumbers(ctx)
  \/ \E ctx \in Ctx : CompCreate(ctx)
  \/ \E ctx \in Ctx : CompCompress(ctx)
  \/ \E ctx \in Ctx : CompUpdate(ctx)
  \/ UploaderGet
  \/ UploaderUpload
  \/ UploaderNotify

Spec == Init /\ [][Next]_vars

\* the end of a run: the producer has finished, the files it left are found by
\* the initial scan, and the caller runs finalize() and stop() at any moment
InitDrain ==
  /\ InitIdle /\ InitPresignedOff /\ InitSizingOff /\ InitMultipartOff
  /\ InitCodecOff /\ InitStreamerOff
  /\ writable = {}
  /\ fsize \in [Paths -> {Absent, 1}]
  /\ writes_left = 0
  /\ faults_left = MaxFaults
  /\ already_secured \in SUBSET SeedFrames
  /\ dm_trained = FALSE
  /\ LedgerInit(already_secured)

NextDrain ==
  \/ PipelineStart
  \/ WorkerGet
  \/ WorkerAdd
  \/ WorkerDrain
  \/ WorkerFinal
  \/ \E ctx \in Ctx : CompBegin(ctx)
  \/ \E ctx \in Ctx : CompTrain(ctx)
  \/ \E ctx \in Ctx : CompCopyFrames(ctx)
  \/ \E ctx \in Ctx : CompCopyNumbers(ctx)
  \/ \E ctx \in Ctx : CompClearFrames(ctx)
  \/ \E ctx \in Ctx : CompClearNumbers(ctx)
  \/ \E ctx \in Ctx : CompCreate(ctx)
  \/ \E ctx \in Ctx : CompCompress(ctx)
  \/ \E ctx \in Ctx : CompUpdate(ctx)
  \/ UploaderGet
  \/ UploaderUpload
  \/ UploaderNotify
  \/ FinalizeFlush
  \/ FinalizeWait
  \/ FinalizeDict
  \/ StopWatcher
  \/ StopCompressor
  \/ StopUploader
  \/ StopReturn

SpecDrain == InitDrain /\ [][NextDrain]_vars

\* ------------------------------------------------ extract_frame_number alone
\* frame numbers the file names are built for
FrameSamples == {0, 7, 10, 250, 9999, 10000, 123456, 1048574}

RECURSIVE Pow10(_)
Pow10(w) == IF w = 0 THEN 1 ELSE 10 * Pow10(w - 1)

\* a file name of the convention is built for the frame
CodecBuild ==
  /\ fc_conv # 0
  /\ fc_name = << >>
  /\ fc_name' = ConventionName(fc_conv, fc_frame, fc_width)
  /\ UNCHANGED <<fc_conv, fc_frame, fc_width, fc_result>>
  /\ UNCHANGED <<fsVars, watcherVars, frame_queue, ledgerVars, histVars,
                 batch_queue, compVars, dictVars, upVars, mainVars, messages,
                 up_tried, psVars, szVars, mpVars, csVars>>

\* extract_frame_number(filepath) on the name in hand
CodecExtract ==
  /\ fc_name # << >>
  /\ fc_result = NotRun
  /\ fc_result' = extract_frame_number(fc_name)
  /\ UNCHANGED <<fc_conv, fc_frame, fc_width, fc_name>>
  /\ UNCHANGED <<fsVars, watcherVars, frame_queue, ledgerVars, histVars,
                 batch_queue, compVars, dictVars, upVars, mainVars, messages,
                 up_tried, psVars, szVars, mpVars, csVars>>

\* a convention, a frame and a number of digits that holds it, or a file name
\* of no convention (fc_conv = 0)
InitCodec ==
  /\ InitIdle /\ InitPresignedOff /\ InitSizingOff /\ InitMultipartOff
  /\ InitStreamerOff
  /\ writable = {}
  /\ fsize = [p \in Paths |-> Absent]
  /\ writes_left = 0
  /\ faults_left = 0
  /\ already_secured = {}
  /\ dm_trained = FALSE
  /\ LedgerInit(already_secured)
  /\ fc_result = NotRun
  /\ \/ /\ fc_conv \in 1..NumPatterns
        /\ fc_frame \in FrameSamples
        /\ fc_width \in {w \in 1..MaxWidth : fc_frame < Pow10(w)}
        /\ fc_name = << >>
     \/ /\ fc_conv = 0
        /\ fc_frame = NoFrame
        /\ fc_width = 0
        /\ fc_name \in OtherNames

NextCodec == CodecBuild \/ CodecExtract

SpecCodec == InitCodec /\ [][NextCodec]_vars

\* the running pipeline of Spec whose caller runs stop() at any moment
NextStop ==
  \/ Next
  \/ WorkerFinal
  \/ StopWatcher
  \/ StopCompressor
  \/ StopUploader
  \/ StopReturn

SpecStop == Init /\ [][NextStop]_vars

\* the Compressor thread and the Uploader thread: both are started by
\* Pipeline.start() and run whenever they can
CompressorThread ==
  \/ WorkerGet \/ WorkerAdd \/ WorkerDrain \/ WorkerFinal
  \/ CompBegin("w") \/ CompTrain("w") \/ CompCopyFrames("w")
  \/ CompCopyNumbers("w") \/ CompClearFrames("w") \/ CompClearNumbers("w")
  \/ CompCreate("w") \/ CompCompress("w") \/ CompUpdate("w")

UploaderThread == UploaderGet \/ UploaderUpload \/ UploaderNotify

SpecStopLive ==
  /\ Init /\ [][NextStop]_vars
  /\ WF_vars(CompressorThread) /\ WF_vars(UploaderThread)

\* the end of a run that is not seeded, on a cache root without a file of a
\* frame in SeedFrames
InitFinalize ==
  /\ InitIdle /\ InitPresignedOff /\ InitSizingOff /\ InitMultipartOff
  /\ InitCodecOff /\ InitStreamerOff
  /\ writable = {}
  /\ fsize \in {f \in [Paths -> {Absent, 1}] :
                  \A p \in Paths : FrameOf[p] \in SeedFrames => f[p] = Absent}
  /\ writes_left = 0
  /\ faults_left = MaxFaults
  /\ already_secured = {}
  /\ dm_trained = FALSE
  /\ LedgerInit(already_secured)

\* a run in which finalize() is called at any moment and stop() is not: the
\* thread inside finalize() keeps running (weak fairness of its steps), while
\* nothing is assumed about the Compressor and the Uploader threads, which
\* may stall for ever
FinalizeThread ==
  \/ CompBegin("m")
  \/ CompTrain("m")
  \/ CompCopyFrames("m")
  \/ CompCopyNumbers("m")
  \/ CompClearFrames("m")
  \/ CompClearNumbers("m")
  \/ CompCreate("m")
  \/ CompCompress("m")
  \/ CompUpdate("m")
  \/ FinalizeWait
  \/ FinalizeDict

NextFinalize ==
  \/ PipelineStart
  \/ WorkerGet
  \/ WorkerAdd
  \/ WorkerDrain
  \/ \E ctx \in Ctx : CompBegin(ctx)
  \/ \E ctx \in Ctx : CompTrain(ctx)
  \/ \E ctx \in Ctx : CompCopyFrames(ctx)
  \/ \E ctx \in Ctx : CompCopyNumbers(ctx)
  \/ \E ctx \in Ctx : CompClearFrames(ctx)
  \/ \E ctx \in Ctx : CompClearNumbers(ctx)
  \/ \E ctx \in Ctx : CompCreate(ctx)
  \/ \E ctx \in Ctx : CompCompress(ctx)
  \/ \E ctx \in Ctx : CompUpdate(ctx)
  \/ UploaderGet
  \/ UploaderUpload
  \/ UploaderNotify
  \/ FinalizeFlush
  \/ FinalizeWait
  \/ FinalizeDict

SpecFinalize ==
  InitFinalize /\ [][NextFinalize]_vars /\ WF_vars(FinalizeThread)

\* upload_file on its own, for a file that exists or not
InitPresigned ==
  /\ InitIdle /\ InitSizingOff /\ InitMultipartOff /\ InitCodecOff /\ InitStreamerOff
  /\ writable = {}
  /\ fsize = [p \in Paths |-> Absent]
  /\ writes_left = 0
  /\ faults_left = 0
  /\ already_secured = {}
  /\ dm_trained = FALSE
  /\ LedgerInit(already_secured)
  /\ ps_exists \in BOOLEAN
  /\ ps_pc = "call" /\ ps_attempt = 0 /\ ps_puts = 0 /\ ps_log = << >>
  /\ ps_sleeps = << >> /\ ps_result = "none"

NextPresigned ==
  \/ PresignedCall
  \/ PresignedPut
  \/ PresignedSleep

SpecPresigned == InitPresigned /\ [][NextPresigned]_vars

\* _upload_batch on its own, for one compressed batch of any size up to
\* MaxData, every S3 call free to return or to raise
InitMultipart ==
  /\ InitIdle /\ InitPresignedOff /\ InitSizingOff /\ InitCodecOff /\ InitStreamerOff
  /\ writable = {}
  /\ fsize = [p \in Paths |-> Absent]
  /\ writes_left = 0
  /\ faults_left = 0
  /\ already_secured = {}
  /\ dm_trained = FALSE
  /\ LedgerInit(already_secured)
  /\ mp_pc = "call"
  /\ mp_size \in 0..MaxData
  /\ mp_offset = 0 /\ mp_part_number = 0
  /\ mp_parts = << >> /\ mp_calls = << >> /\ mp_status = "compressed"

NextMultipart ==
  \/ MultipartChoose
  \/ MultipartPutObject
  \/ MultipartCreate
  \/ MultipartLoop
  \/ MultipartAbort

SpecMultipart == InitMultipart /\ [][NextMultipart]_vars

\* the uploader on its own: two compressed batches are in the ledger, and the
\* batch queue holds up to MaxSubmits submissions of them, the same batch id
\* possibly more than once with the same payload and frame list
ResubmitBatches ==
  << [frames |-> <<10, 11>>, status |-> "compressed", raw |-> 1, comp |-> 1,
      dur |-> 0],
     [frames |-> <<12>>, status |-> "compressed", raw |-> 1, comp |-> 1,
      dur |-> 0] >>

Submission(id) ==
  [id |-> id, size |-> ResubmitBatches[id].comp,
   frames |-> ResubmitBatches[id].frames]

InitResubmit ==
  /\ InitPresignedOff /\ InitSizingOff /\ InitMultipartOff /\ InitCodecOff /\ InitStreamerOff
  /\ writable = {}
  /\ fsize = [p \in Paths |-> Absent]
  /\ writes_left = 0
  /\ events = {}
  /\ started = TRUE
  /\ observing = FALSE
  /\ seen_files = {}
  /\ w_pc = "idle" /\ w_path = 0 /\ w_last = -1 /\ w_waited = 0
  /\ frame_queue = << >>
  /\ pending_frames = << >>
  /\ pending_frame_numbers = << >>
  /\ dict_training_samples = << >>
  /\ dict_trained = FALSE
  /\ batch_size = DEFAULT_BATCH_SIZE
  /\ comp_stop = FALSE
  /\ wk_pc = "off" /\ wk_path = 0
  /\ c_pc = [c \in Ctx |-> "idle"]
  /\ c_frames = [c \in Ctx |-> << >>]
  /\ c_nums = [c \in Ctx |-> << >>]
  /\ c_batch = [c \in Ctx |-> 0]
  /\ dm_trained = FALSE
  /\ dict_trains = 0 /\ dict_saves = 0 /\ dict_uploads = 0
  /\ up_stop = FALSE /\ up_pc = "get" /\ up_item = NoItem
  /\ m_pc = "running" /\ finalized = FALSE /\ timed_out = {}
  /\ f_waited = 0
  /\ messages = << >>
  /\ enq_count = [p \in Paths |-> 0]
  /\ admitted = [p \in Paths |-> "no"]
  /\ f_enq = {}
  /\ batch_files = << >>
  /\ up_tried = << >>
  /\ faults_left \in 0..MaxFaults
  /\ already_secured \in SUBSET SeedFrames
  /\ baked_frames = {10, 11, 12}
  /\ secured_frames = already_secured
  /\ batches = ResubmitBatches
  /\ batch_queue \in UNION {[1..n -> {Submission(id) : id \in 1..2}] :
                               n \in 1..MaxSubmits}

NextResubmit ==
  \/ UploaderGet
  \/ UploaderUpload
  \/ UploaderNotify

SpecResubmit == InitResubmit /\ [][NextResubmit]_vars

\* the batch records update_batch_size may find in the ledger
SizingBatches ==
  [frames : {<< >>, <<10>>, <<10, 11>>}, status : {"confirmed", "failed"},
   raw : 0..MaxSize, comp : {1}, dur : {1}]

\* rolling speed and ratio as fractions; 0 while nothing is confirmed
Rates == [n : 0..MaxRate, d : 1..MaxRate]

\* update_batch_size on its own, for a ledger, a speed and a ratio
InitSizing ==
  /\ InitIdle /\ InitPresignedOff /\ InitMultipartOff /\ InitCodecOff /\ InitStreamerOff
  /\ writable = {}
  /\ fsize = [p \in Paths |-> Absent]
  /\ writes_left = 0
  /\ faults_left = 0
  /\ already_secured = {}
  /\ dm_trained = FALSE
  /\ baked_frames = {}
  /\ secured_frames = {}
  /\ batches \in UNION {[1..n -> SizingBatches] : n \in 0..MaxBatches}
  /\ sz_speed \in Rates
  /\ sz_ratio \in Rates
  /\ sz_done = FALSE

NextSizing == SizingUpdate

SpecSizing == InitSizing /\ [][NextSizing]_vars

\* -------------------------------------------------------------- CacheStreamer
\* the number of files one REQUEST_UPLOAD_URLS message may name
UPLOAD_BATCH_SIZE == 1

\* the longest upload_queue the runs are followed to: a file that failed is
\* out of queued_files, so it can be registered and answered again while an
\* entry for it is still queued, and the queue has no bound of its own
MaxCsQueue == 2

\* sizes a cache file may be written with
CsSizes == {0, 1}

\* what the call of upload_file ends with: True, False, or an exception that
\* upload_file does not catch
UploadOutcomes == {"success", "failure", "error"}

\* the keys of pending_url_files, a dict, held in insertion order
Keys(pend) == {pend[i] : i \in 1..Len(pend)}

\* pending_url_files[relative] = file_path: a new key goes last, a key already
\* there keeps its place
pending_set(pend, f) == IF f \in Keys(pend) THEN pend ELSE Append(pend, f)

\* list(pending_url_files.items())[:Config.UPLOAD_BATCH_SIZE]
batch_items(pend) ==
  SubSeq(pend, 1, IF Len(pend) < UPLOAD_BATCH_SIZE THEN Len(pend)
                  ELSE UPLOAD_BATCH_SIZE)

\* a variant of the failure branch that does not put the file back
pending_after_upload_dropped(pend, f, outcome) == pend

\* pending_url_files after upload_file has returned: the failure branch puts
\* the file back
pending_after_upload(pend, f, outcome) ==
  IF outcome = "failure" THEN pending_set(pend, f) ELSE pend

\* everything but the streamer's files, sets, queue and upload loop
nonStreamerVars == <<fsVars, watcherVars, frame_queue, ledgerVars, histVars,
                     batch_queue, compVars, dictVars, upVars, mainVars,
                     messages, up_tried, psVars, szVars, mpVars, fcVars,
                     finVars>>

\* the baker writes a cache file and the observer's on_created/on_modified
\* schedules _register_file, which the loop runs: a file neither uploaded nor
\* queued joins queued_files and pending_url_files
StreamerRegister(f, s) ==
  /\ cs_pc # "off"
  /\ cs_fsize' = [cs_fsize EXCEPT ![f] = s]
  /\ IF f \in cs_uploaded \/ f \in cs_queued
       THEN UNCHANGED <<cs_queued, cs_pending>>
       ELSE /\ cs_queued' = cs_queued \cup {f}
            /\ cs_pending' = pending_set(cs_pending, f)
  /\ UNCHANGED cs_result
  /\ UNCHANGED <<cs_uploaded, cs_failed, cs_upload_queue, cs_pc, cs_file,
                 cs_request, cs_asked, cs_retry>>
  /\ UNCHANGED nonStreamerVars

\* the baker removes a cache file; the handler has no on_deleted
StreamerDelete(f) ==
  /\ cs_pc # "off"
  /\ cs_fsize[f] # Absent
  /\ cs_fsize' = [cs_fsize EXCEPT ![f] = Absent]
  /\ UNCHANGED cs_result
  /\ UNCHANGED <<cs_pending, cs_queued, cs_uploaded, cs_failed,
                 cs_upload_queue, cs_pc, cs_file, cs_request,
                 cs_asked, cs_retry>>
  /\ UNCHANGED nonStreamerVars

\* one turn of _batch_loop that sends a request: something is pending and the
\* WebSocket is connected (a turn that finds otherwise changes nothing). The
\* entries asked for stay in pending_url_files.
StreamerBatch ==
  /\ cs_pc # "off"
  /\ cs_pending # << >>
  /\ cs_request' = batch_items(cs_pending)
  /\ cs_asked' = cs_asked \cup Keys(cs_request')
  /\ cs_retry' = [f \in CsFiles |->
                    IF cs_retry[f] = "waiting" /\ f \in Keys(cs_request')
                      THEN "asked" ELSE cs_retry[f]]
  /\ UNCHANGED cs_result
  /\ UNCHANGED <<cs_fsize, cs_pending, cs_queued, cs_uploaded,
                 cs_failed, cs_upload_queue, cs_pc, cs_file>>
  /\ UNCHANGED nonStreamerVars

\* a relativePath in a server message that names no pending file
UnknownFile == 0

\* the messages the server may answer with: one or two entries, each for a
\* file some request named or for an unknown path, the same entry twice
\* included
UrlMessages ==
  {<<f>> : f \in cs_asked \cup {UnknownFile}} \cup
  {<<p[1], p[2]>> : p \in (cs_asked \cup {UnknownFile})
                           \X (cs_asked \cup {UnknownFile})}

\* a variant of pending_pop that leaves the entry in pending_url_files
pending_peek(pend, f) == pend

\* pending_url_files.pop(rel_path, None), for a key that is there
pending_pop(pend, f) == SelectSeq(pend, LAMBDA g : g # f)

\* the loop of handle_upload_urls over the entries of a message, on
\* st = [pending, queue]: an entry whose path is pending is popped and put on
\* upload_queue, any other entry is skipped
RECURSIVE handle_upload_urls(_, _)
handle_upload_urls(st, msg) ==
  IF msg = << >> THEN st
  ELSE handle_upload_urls(
         IF Head(msg) \in Keys(st.pending)
         THEN [pending |-> pending_pop(st.pending, Head(msg)),
               queue |-> Append(st.queue, Head(msg))]
         ELSE st,
         Tail(msg))

\* handle_upload_urls for one message of the server
StreamerUrls(msg) ==
  /\ cs_pc # "off"
  /\ msg \in UrlMessages
  /\ \E st \in {handle_upload_urls([pending |-> cs_pending,
                                      queue |-> cs_upload_queue], msg)} :
       /\ cs_pending' = st.pending
       /\ cs_upload_queue' = st.queue
       /\ Len(st.queue) <= MaxCsQueue
  /\ cs_retry' = [f \in CsFiles |->
                    IF f \in Keys(msg) /\ f \in Keys(cs_pending)
                      THEN "none" ELSE cs_retry[f]]
  /\ UNCHANGED cs_result
  /\ UNCHANGED <<cs_fsize, cs_queued, cs_uploaded, cs_failed,
                 cs_pc, cs_file, cs_request, cs_asked>>
  /\ UNCHANGED nonStreamerVars

\* _upload_loop takes an entry and _upload_file runs to its first await: a
\* file already uploaded or no longer there is dropped from queued_files
StreamerTake ==
  /\ cs_pc = "get"
  /\ cs_upload_queue # << >>
  /\ cs_upload_queue' = Tail(cs_upload_queue)
  /\ cs_file' = Head(cs_upload_queue)
  /\ cs_result' = "none"
  /\ IF cs_file' \in cs_uploaded \/ cs_fsize[cs_file'] = Absent
       THEN /\ cs_queued' = cs_queued \ {cs_file'}
            /\ cs_pc' = "get"
       ELSE /\ cs_pc' = "stable"
            /\ UNCHANGED cs_queued
  /\ UNCHANGED <<cs_fsize, cs_pending, cs_uploaded, cs_failed,
                 cs_request, cs_asked, cs_retry>>
  /\ UNCHANGED nonStreamerVars

\* _wait_file_stable has returned: stat() the file; a file that is gone is
\* dropped, an empty one counts as uploaded, any other goes to upload_file
StreamerStat ==
  /\ cs_pc = "stable"
  /\ IF cs_fsize[cs_file] = Absent
       THEN /\ cs_queued' = cs_queued \ {cs_file}
            /\ cs_pc' = "get"
            /\ UNCHANGED cs_uploaded
       ELSE IF cs_fsize[cs_file] = 0
         THEN /\ cs_uploaded' = cs_uploaded \cup {cs_file}
              /\ cs_queued' = cs_queued \ {cs_file}
              /\ cs_pc' = "get"
         ELSE /\ cs_pc' = "upload"
              /\ UNCHANGED <<cs_uploaded, cs_queued>>
  /\ UNCHANGED cs_result
  /\ UNCHANGED <<cs_fsize, cs_pending, cs_failed, cs_upload_queue,
                 cs_file, cs_request, cs_asked, cs_retry>>
  /\ UNCHANGED nonStreamerVars

\* upload_file has ended in the executor and _upload_file resumes: success
\* records the file as uploaded; failure records it as failed and puts it
\* back into pending_url_files; both drop it from queued_files. An exception
\* leaves every set as it was and is logged by _upload_loop.
StreamerUploaded(outcome) ==
  /\ cs_pc = "upload"
  /\ cs_pc' = "get"
  /\ cs_result' = outcome
  /\ cs_uploaded' = IF outcome = "success" THEN cs_uploaded \cup {cs_file}
                    ELSE cs_uploaded
  /\ cs_failed' = IF outcome = "failure" THEN cs_failed \cup {cs_file}
                  ELSE cs_failed
  /\ cs_queued' = IF outcome = "error" THEN cs_queued
                  ELSE cs_queued \ {cs_file}
  /\ cs_pending' = pending_after_upload(cs_pending, cs_file, outcome)
  /\ cs_retry' = IF outcome = "failure"
                   THEN [cs_retry EXCEPT ![cs_file] = "waiting"]
                   ELSE cs_retry
  /\ UNCHANGED <<cs_fsize, cs_upload_queue, cs_file, cs_request,
                 cs_asked>>
  /\ UNCHANGED nonStreamerVars

\* the streamer started on an empty cache directory, the pipeline idle
InitStreamer ==
  /\ InitIdle /\ InitPresignedOff /\ InitSizingOff /\ InitMultipartOff
  /\ InitCodecOff
  /\ writable = {}
  /\ fsize = [p \in Paths |-> Absent]
  /\ writes_left = 0
  /\ faults_left = 0
  /\ already_secured = {}
  /\ dm_trained = FALSE
  /\ LedgerInit(already_secured)
  /\ cs_fsize = [f \in CsFiles |-> Absent]
  /\ cs_pending = << >>
  /\ cs_queued = {} /\ cs_uploaded = {} /\ cs_failed = {}
  /\ cs_upload_queue = << >>
  /\ cs_pc = "get" /\ cs_file = 0 /\ cs_result = "none"
  /\ cs_request = << >> /\ cs_asked = {}
  /\ cs_retry = [f \in CsFiles |-> "none"]
  /\ cs_fin = "idle" /\ cs_fin_timed_out = {}

\* what finalize() leaves alone
finalizeFrame == <<fsVars, watcherVars, frame_queue, ledgerVars, histVars,
                   batch_queue, compVars, dictVars, upVars, mainVars,
                   messages, up_tried, psVars, szVars, mpVars, fcVars,
                   cs_fsize, cs_pending, cs_queued, cs_uploaded, cs_failed,
                   cs_upload_queue, cs_pc, cs_file, cs_result, cs_request,
                   cs_asked, cs_retry>>

\* finalize() is called on the running streamer
StreamerFinalize ==
  /\ cs_fin = "idle"
  /\ cs_fin' = "wait_urls"
  /\ UNCHANGED <<cs_fin_timed_out, finalizeFrame>>

\* finalize(), first loop: left when pending_url_files and upload_queue are
\* both empty, or after 60 s (a sleep of 0.5 s changes nothing else)
StreamerFinalWaitUrls ==
  /\ cs_fin = "wait_urls"
  /\ cs_fin' = "wait_uploads"
  /\ cs_fin_timed_out' =
       IF cs_pending # << >> \/ cs_upload_queue # << >>
       THEN cs_fin_timed_out \cup {"urls"} ELSE cs_fin_timed_out
  /\ UNCHANGED finalizeFrame

\* finalize(), second loop: left when queued_files - uploaded_files is empty,
\* or after 60 s
StreamerFinalWaitUploads ==
  /\ cs_fin = "wait_uploads"
  /\ cs_fin' = "send"
  /\ cs_fin_timed_out' =
       IF cs_queued \ cs_uploaded # {}
       THEN cs_fin_timed_out \cup {"uploads"} ELSE cs_fin_timed_out
  /\ UNCHANGED finalizeFrame

\* finalize(): _send_progress() and ws_client.send_cache_complete()
StreamerFinalSend ==
  /\ cs_fin = "send"
  /\ cs_fin' = "sent"
  /\ UNCHANGED <<cs_fin_timed_out, finalizeFrame>>

\* the streamer with finalize() called once the bake has ended: the cache
\* directory no longer changes after the call
NextStreamerFinal ==
  \/ \E f \in CsFiles, s \in CsSizes : cs_fin = "idle" /\ StreamerRegister(f, s)
  \/ \E f \in CsFiles : cs_fin = "idle" /\ StreamerDelete(f)
  \/ StreamerBatch
  \/ \E msg \in UrlMessages : StreamerUrls(msg)
  \/ StreamerTake
  \/ StreamerStat
  \/ \E outcome \in UploadOutcomes : StreamerUploaded(outcome)
  \/ StreamerFinalize
  \/ StreamerFinalWaitUrls
  \/ StreamerFinalWaitUploads
  \/ StreamerFinalSend

SpecStreamerFinal == InitStreamer /\ [][NextStreamerFinal]_vars

NextStreamer ==
  \/ \E f \in CsFiles, s \in CsSizes : StreamerRegister(f, s)
  \/ \E f \in CsFiles : StreamerDelete(f)
  \/ StreamerBatch
  \/ \E msg \in UrlMessages : StreamerUrls(msg)
  \/ StreamerTake
  \/ StreamerStat
  \/ \E outcome \in UploadOutcomes : StreamerUploaded(outcome)

SpecStreamer == InitStreamer /\ [][NextStreamer]_vars

\* ------------------------------------------------------------------ properties
FramesOf(seq) == {seq[i] : i \in 1..Len(seq)}

\* frames of the batches the ledger has confirmed
ConfirmedFrames(bs) == UNION {FramesOf(bs[i].frames) : i \in Confirmed(bs)}

\* paths the watcher has put on the file queue
Arrived == {p \in Paths : enq_count[p] > 0}

\* C1 as stated: in every reachable state, seeded runs included, every frame
\* of the secured set is in the produced set. Violated in the initial state of
\* a run seeded with frame 10: the ledger starts with secured = {10} and
\* nothing produced.
C1_SecuredSubsetProduced == secured_frames \subseteq baked_frames

\* position of a batch status on the chain
\* pending -> compressing -> compressed -> uploading -> {confirmed | failed}
StatusRank(st) ==
  CASE st = "pending" -> 0
    [] st = "compressing" -> 1
    [] st = "compressed" -> 2
    [] st = "uploading" -> 3
    [] st \in {"confirmed", "failed"} -> 4

C2_BatchStep ==
  /\ Len(batches') >= Len(batches)
  /\ \A i \in 1..Len(batches) :
       /\ StatusRank(batches'[i].status) >= StatusRank(batches[i].status)
       /\ batches[i].status \in {"confirmed", "failed"}
            => batches'[i].status = batches[i].status
  /\ \A i \in (Len(batches) + 1)..Len(batches') : batches'[i].status = "pending"

\* C2: in every step, under every interleaving of the Compressor thread, the
\* Uploader thread and finalize(), no batch moves backwards on the chain
\* pending -> compressing -> compressed -> uploading -> {confirmed | failed},
\* a confirmed or failed batch keeps its status, and a new batch starts pending.
C2_BatchStateMachine == [][C2_BatchStep]_vars

\* C2 witness: finalize() has returned and the ledger holds a confirmed and a
\* failed batch
C2_Witness ==
  /\ finalized
  /\ \E i, j \in 1..Len(batches) :
       batches[i].status = "confirmed" /\ batches[j].status = "failed"

C3_ConfirmedStep ==
  /\ \A i \in 1..Len(batches) :
       batches[i].status = "confirmed"
         => /\ batches'[i].status = "confirmed"
            /\ FramesOf(batches[i].frames) \subseteq secured_frames'
  /\ secured_frames \subseteq secured_frames'
  /\ secured_frames' # secured_frames
       => \E i \in 1..Len(batches) :
            /\ batches[i].status # "confirmed"
            /\ batches'[i].status = "confirmed"
            /\ secured_frames' = secured_frames \cup FramesOf(batches[i].frames)

\* C3: a confirmed batch stays confirmed and its frames stay secured in every
\* later step, the step after a failed notification included; the secured set
\* only grows, and only in the step that confirms a batch, by that batch's
\* frames.
C3_ConfirmedIrreversible == [][C3_ConfirmedStep]_vars

\* C3 witness: the Uploader is back at the head of its loop after a batch was
\* confirmed and the notification for it failed (no message was handed over)
C3_Witness ==
  /\ up_pc = "get"
  /\ messages = << >>
  /\ \E i \in 1..Len(batches) :
       batches[i].status = "confirmed" /\ batches[i].frames # << >>

\* C4: the watcher puts every path on the file queue at most once, whatever
\* scan hits and create/modify events it gets for the path.
C4_EnqueuedAtMostOnce == \A p \in Paths : enq_count[p] <= 1

\* C4 witness: a path that was put on the file queue has a further event
\* waiting to be dispatched
C4_Witness == \E p \in Paths : enq_count[p] = 1 /\ p \in events

\* the step in which _process_file(initial=False) puts w_path on the queue
LivePut ==
  /\ w_pc = "wait_stable"
  /\ enq_count'[w_path] = enq_count[w_path] + 1

C5_GateStep ==
  LivePut => \/ fsize[w_path] = w_last /\ w_last > 0
             \/ w_waited + 1 = WaitStablePolls /\ fsize[w_path] > 0

\* C5 (amended): a file found through a live event is put on the file queue
\* only in a poll that reads the same non-zero size as the poll before it, or
\* in the last poll of the gate's timeout when that poll reads a non-zero size.
C5_StabilityGate == [][C5_GateStep]_vars

\* C5 witness: a live file was enqueued after two equal consecutive polls
C5_Witness == \E p \in Paths : admitted[p] = "stable" /\ enq_count[p] = 1

C5_TwoPollsStep == LivePut => (fsize[w_path] = w_last /\ w_last > 0)

\* C5 as stated: a live file is put on the file queue only once two
\* consecutive polls have read the same non-zero size.
C5_TwoEqualPolls == [][C5_TwoPollsStep]_vars

\* every stage is idle and nothing is queued or pending
Quiet ==
  /\ w_pc = "idle" /\ wk_pc = "get" /\ up_pc = "get"
  /\ c_pc["w"] = "idle" /\ c_pc["m"] = "idle"
  /\ frame_queue = << >> /\ batch_queue = << >> /\ pending_frames = << >>

\* as many files as the configured batch size, with distinct frame numbers,
\* have arrived and are still on disk; the run is not seeded and nothing failed
C6_Scenario ==
  /\ Quiet
  /\ already_secured = {}
  /\ faults_left = MaxFaults
  /\ writes_left >= MaxWrites - DEFAULT_BATCH_SIZE
  /\ Cardinality(Arrived) = DEFAULT_BATCH_SIZE
  /\ \A p \in Arrived : FrameOf[p] # NoFrame /\ fsize[p] # Absent
  /\ \A p, q \in Arrived : p # q => FrameOf[p] # FrameOf[q]

\* the scenario's result up to the confirmation message
C6_BatchSecured ==
  /\ Len(batches) = 1
  /\ FramesOf(batches[1].frames) = {FrameOf[p] : p \in Arrived}
  /\ Len(batches[1].frames) = DEFAULT_BATCH_SIZE
  /\ batches[1].status = "confirmed"
  /\ secured_frames = {FrameOf[p] : p \in Arrived}

\* C6 as stated: when as many files with distinct frames as the batch size
\* have arrived, exactly one batch with exactly those frames exists and is
\* confirmed, exactly one confirmation message with that frame list has been
\* emitted, and the secured set is exactly those frames. Violated: the batch
\* is confirmed and no message was emitted.
C6_OneBatchOneMessage ==
  C6_Scenario => /\ C6_BatchSecured
                 /\ Len(messages) = 1
                 /\ messages[1].frames = batches[1].frames

\* one file with a frame number was on the file queue when finalize() was
\* called, nothing else arrived, the run is not seeded and nothing failed or
\* timed out
C7_Scenario(p) ==
  /\ f_enq = {p}
  /\ Arrived = {p}
  /\ FrameOf[p] # NoFrame
  /\ fsize[p] # Absent
  /\ already_secured = {}
  /\ faults_left = MaxFaults
  /\ timed_out = {}

C7_Result(p) ==
  /\ Len(batches) = 1
  /\ batches[1].frames = <<FrameOf[p]>>
  /\ FrameOf[p] \in secured_frames

C7_ReturnStep ==
  (~finalized /\ finalized')
    => \A p \in Paths : C7_Scenario(p)' => C7_Result(p)'

\* C7 as stated: with one file for one frame, fewer than the batch size, in
\* the state in which finalize() returns there is exactly one batch, it holds
\* that frame, and the frame is in the secured set. Violated.
C7_FinalizeSecuresShortRun == [][C7_ReturnStep]_vars

\* batches whose compression failed: marked failed without a compressed size
CompFailed(bs) == {i \in 1..Len(bs) : bs[i].status = "failed" /\ bs[i].comp = 0}

C8_State ==
  /\ secured_frames = already_secured \cup ConfirmedFrames(batches)
  /\ ~comp_stop => wk_pc # "exited"
  /\ ~up_stop => up_pc # "exited"

C8_Step == \A a \in CompFailed(batches) : a \in CompFailed(batches')

\* C8: a batch whose compression failed stays recorded as failed; the secured
\* set holds exactly the seeded frames and the frames of confirmed batches, so
\* the frames of a later confirmed batch are in it and frames that were only in
\* the failed batch are not; and the failure ends neither the Compressor nor
\* the Uploader thread, which run until stop() signals them.
C8_FailureIsolation == [](C8_State) /\ [][C8_Step]_vars

\* C8 witness: batch a failed in compression, a later batch b is confirmed,
\* b's frames are secured and a's frames are not
C8_Witness ==
  \E a, b \in 1..Len(batches) :
    /\ a < b
    /\ a \in CompFailed(batches)
    /\ batches[b].status = "confirmed"
    /\ batches[a].frames # << >> /\ batches[b].frames # << >>
    /\ FramesOf(batches[b].frames) \subseteq secured_frames
    /\ FramesOf(batches[a].frames) \cap secured_frames = {}

\* update_batch_size gets past its early returns
C9_Applies ==
  /\ sz_speed.n > 0 /\ sz_ratio.n > 0
  /\ sized_batches(batches) # {}
  /\ avg_raw_per_frame(batches).n > 0

\* numerator and denominator of (S * target_upload_seconds * R) / avg
C9_Num ==
  sz_speed.n * TARGET_UPLOAD_TIME * sz_ratio.n * avg_raw_per_frame(batches).d

C9_Den == sz_speed.d * sz_ratio.d * avg_raw_per_frame(batches).n

\* C9 (amended): after an update that is not skipped, the target is the
\* integer part of (S * target_upload_seconds * R) / avg_raw_per_frame clamped
\* to [MIN_BATCH_SIZE, MAX_BATCH_SIZE], avg_raw_per_frame being the mean over
\* the confirmed non-empty batches of raw_size / number of frames; a skipped
\* update leaves the target as it was; so the target is within the clamp range.
C9_TruncatedClamp ==
  sz_done =>
    IF C9_Applies
    THEN /\ batch_size \in MIN_BATCH_SIZE..MAX_BATCH_SIZE
         /\ \/ batch_size = MIN_BATCH_SIZE
                 /\ C9_Num < (MIN_BATCH_SIZE + 1) * C9_Den
            \/ batch_size = MAX_BATCH_SIZE
                 /\ C9_Num >= MAX_BATCH_SIZE * C9_Den
            \/ /\ batch_size * C9_Den <= C9_Num
               /\ C9_Num < (batch_size + 1) * C9_Den
    ELSE batch_size = DEFAULT_BATCH_SIZE

\* C9 witness: an update was applied to a quotient that is not an integer and
\* lies strictly inside the clamp range
C9_Witness ==
  /\ sz_done /\ C9_Applies
  /\ C9_Num % C9_Den # 0
  /\ C9_Num > MIN_BATCH_SIZE * C9_Den
  /\ C9_Num < MAX_BATCH_SIZE * C9_Den

\* C9 as stated: after an update that is not skipped the target equals
\* (S * target_upload_seconds * R) / avg_raw_per_frame clamped to
\* [MIN_BATCH_SIZE, MAX_BATCH_SIZE].
C9_ExactClamp ==
  (sz_done /\ C9_Applies) =>
    \/ batch_size = MIN_BATCH_SIZE /\ C9_Num <= MIN_BATCH_SIZE * C9_Den
    \/ batch_size = MAX_BATCH_SIZE /\ C9_Num >= MAX_BATCH_SIZE * C9_Den
    \/ batch_size * C9_Den = C9_Num

\* PUT attempts that ended in a status other than 200/201/204, an HTTPError or
\* a URLError
C10_Failures ==
  {k \in 1..Len(ps_log) :
     ps_log[k] \notin {"200", "201", "204", "Other"}}

\* C10 (amended): upload_file makes at most 3 PUT attempts; it sleeps 1 s
\* after the first failed attempt and 2 s after the second, whatever the kind
\* of failure (status other than 200/201/204, HTTPError, URLError), and does
\* not sleep after the third; it returns False only after the third such
\* failure, or without any PUT when the file does not exist.
C10_BoundedRetry ==
  /\ ps_puts <= DefaultMaxRetries
  /\ Len(ps_log) = ps_puts
  /\ Len(ps_sleeps) = IF Cardinality(C10_Failures) < DefaultMaxRetries
                      THEN Cardinality(C10_Failures)
                      ELSE DefaultMaxRetries - 1
  /\ \A k \in 1..Len(ps_sleeps) : ps_sleeps[k] = 2 ^ (k - 1)
  /\ ps_result = "false"
       => \/ ~ps_exists /\ ps_puts = 0
          \/ ps_exists /\ Cardinality(C10_Failures) = DefaultMaxRetries

\* C10 witness: the call returned False after three failed attempts of three
\* different kinds
C10_Witness ==
  /\ ps_result = "false"
  /\ ps_log = <<"202", "HTTPError", "URLError">>
  /\ ps_sleeps = <<1, 2>>

\* C10 as stated: at most 3 PUT attempts, a wait of 1 s, 2 s and 4 s after the
\* first, second and third failed attempt, and, for a file that exists,
\* failure reported only once the three attempts are used up. Violated: no
\* wait follows the third failed attempt.
C10_ThreeWaits ==
  /\ ps_puts <= DefaultMaxRetries
  /\ Len(ps_sleeps) = Cardinality(C10_Failures)
  /\ \A k \in 1..Len(ps_sleeps) : ps_sleeps[k] = 2 ^ (k - 1)
  /\ (ps_result = "false" /\ ps_exists) => ps_puts = DefaultMaxRetries

\* the upload_part calls made so far, in call order
PartCalls == SelectSeq(mp_calls, LAMBDA c : c.op = "upload_part")

CallsOf(op) == {i \in 1..Len(mp_calls) : mp_calls[i].op = op}

\* C11: the k-th upload_part call carries PartNumber k and the k-th chunk of
\* the payload; complete_multipart_upload is called only after every part of
\* the payload was uploaded without error; after a failed upload_part no
\* further part is uploaded, complete_multipart_upload is never called, the
\* next call is abort_multipart_upload, and the batch ends failed.
C11_MultipartTransaction ==
  /\ \A k \in 1..Len(PartCalls) :
       /\ PartCalls[k].part = k
       /\ PartCalls[k].lo = (k - 1) * S3_MULTIPART_CHUNK_SIZE
       /\ PartCalls[k].hi = Min(k * S3_MULTIPART_CHUNK_SIZE, mp_size)
       /\ k < Len(PartCalls) => PartCalls[k].ok
  /\ \A i \in CallsOf("complete_multipart_upload") :
       /\ \A j \in 1..(i - 1) : mp_calls[j].ok
       /\ Len(PartCalls) >= 1
       /\ PartCalls[Len(PartCalls)].hi = mp_size
       /\ mp_parts = [k \in 1..Len(PartCalls) |-> k]
  /\ \A i \in CallsOf("upload_part") :
       ~mp_calls[i].ok =>
         /\ CallsOf("complete_multipart_upload") = {}
         /\ mp_pc \in {"abort", "done"}
         /\ i < Len(mp_calls) =>
              /\ i + 1 = Len(mp_calls)
              /\ mp_calls[i + 1].op = "abort_multipart_upload"
         /\ mp_pc = "done" =>
              /\ CallsOf("abort_multipart_upload") = {i + 1}
              /\ mp_status = "failed"
  /\ mp_status = "confirmed" =>
       /\ mp_pc = "done"
       /\ \A i \in 1..Len(mp_calls) : mp_calls[i].ok

\* C11 witness: the second part of a multipart upload failed after the first
\* succeeded, the transaction was aborted and the batch is marked failed
C11_Witness ==
  /\ mp_pc = "done"
  /\ mp_status = "failed"
  /\ Len(PartCalls) = 2
  /\ PartCalls[1].ok /\ ~PartCalls[2].ok
  /\ CallsOf("abort_multipart_upload") # {}

\* batches whose upload failed: marked failed after they were compressed
UploadFailed(bs) == {i \in 1..Len(bs) : bs[i].status = "failed" /\ bs[i].comp > 0}

QueuedIds == {batch_queue[k].id : k \in 1..Len(batch_queue)}

C12_State ==
  /\ \A i, j \in 1..Len(up_tried) : i # j => up_tried[i] # up_tried[j]
  /\ \A b \in UploadFailed(batches) :
       /\ \E i \in 1..Len(up_tried) : up_tried[i] = b
       /\ b \notin QueuedIds
       /\ up_item.id # b
  /\ secured_frames = already_secured \cup ConfirmedFrames(batches)

C12_Step ==
  /\ \A b \in UploadFailed(batches) : b \in UploadFailed(batches')
  /\ UploadFailed(batches') # UploadFailed(batches)
       => secured_frames' = secured_frames

\* C12: _upload_batch is called at most once for every batch id; a batch
\* whose upload failed is marked failed, stays failed, is neither on the batch
\* queue nor in the uploader's hands again, and the step that marks it failed
\* adds nothing to the secured set, which holds the seeded frames and the
\* frames of confirmed batches only.
C12_NoRetry == [](C12_State) /\ [][C12_Step]_vars

\* C12 witness: the upload of a batch failed, and the uploader has since
\* taken and confirmed a later batch
C12_Witness ==
  /\ up_pc = "get"
  /\ \E a \in UploadFailed(batches), b \in Confirmed(batches) :
       /\ a < b
       /\ batches[a].frames # << >>
       /\ FramesOf(batches[a].frames) \cap secured_frames = {}

\* the messages emitted for batch b
MessagesFor(b) == {k \in 1..Len(messages) : messages[k].batchId = b}

\* C13 as stated: once the uploader is done with a batch whose upload
\* succeeded, exactly one PROGRESS_SECURED message for it has been emitted,
\* with its id, storage key and frame list; no message exists for a batch
\* that is not confirmed. Violated: the batch is confirmed, the uploader is
\* back at the head of its loop and no message was emitted.
C13_OneMessagePerConfirmed ==
  /\ \A b \in Confirmed(batches) :
       up_item.id # b =>
         /\ Cardinality(MessagesFor(b)) = 1
         /\ \A k \in MessagesFor(b) :
              /\ messages[k].type = "PROGRESS_SECURED"
              /\ messages[k].r2Key = r2_key(b)
              /\ messages[k].frames = batches[b].frames
  /\ \A k \in 1..Len(messages) :
       batches[messages[k].batchId].status = "confirmed"

C14_NoRetrainStep ==
  /\ dict_trained => dict_trains' = dict_trains
  /\ dict_trains' # dict_trains
       => Len(dict_training_samples) >= ZSTD_MIN_TRAINING_SAMPLES

\* C14 as stated: the dictionary is trained successfully at most once in a
\* run; once _dict_trained is set no further training happens, whether for a
\* later batch or for the flush of finalize(); and training happens only with
\* at least ZSTD_MIN_TRAINING_SAMPLES samples. Violated: the Compressor
\* thread and the flush of finalize() both pass the test of _dict_trained
\* before either sets it, and both train and save a dictionary.
C14_TrainedOnce == [](dict_saves <= 1) /\ [][C14_NoRetrainStep]_vars

\* batch ids the key is checked for, across the four-digit padding
KeyIds == {1, 2, 9, 10, 99, 100, 999, 1000, 9999, 10000, 10001, 12345}

C15_State ==
  /\ \A i, j \in KeyIds \cup 1..Len(batches) :
       (r2_key(i) = r2_key(j)) <=> (i = j)
  /\ secured_frames \subseteq
       already_secured
         \cup UNION {FramesOf(batches[up_tried[k]].frames) :
                       k \in 1..Len(up_tried)}

C15_Step ==
  /\ secured_frames \subseteq secured_frames'
  /\ (up_pc = "upload" /\ FramesOf(up_item.frames) \subseteq secured_frames)
       => secured_frames' = secured_frames
  /\ (up_pc = "upload" /\ secured_frames' # secured_frames)
       => secured_frames' = secured_frames \cup FramesOf(up_item.frames)

\* C15: distinct batch ids have distinct storage keys and the key depends on
\* the id alone; an upload of a batch whose frames are already secured, as on
\* a second submission of the same id, leaves the secured set as it was, and
\* a successful upload adds exactly the frames of its batch.
C15_KeyAndResubmit == [](C15_State) /\ [][C15_Step]_vars

\* C15 witness: the same batch id was submitted twice and uploaded twice
\* without failure, and the uploader is back at the head of its loop
C15_Witness ==
  /\ up_pc = "get"
  /\ Len(up_tried) = 2 /\ up_tried[1] = up_tried[2]
  /\ Len(batch_queue) = 0
  /\ secured_frames = already_secured \cup FramesOf(batches[up_tried[1]].frames)
  /\ batches[up_tried[1]].status = "confirmed"

\* paths whose extracted frame number is in the already-secured set
SecuredPaths ==
  {p \in Paths : FrameOf[p] # NoFrame /\ FrameOf[p] \in already_secured}

C16_State ==
  /\ \A p \in SecuredPaths :
       /\ enq_count[p] = 0
       /\ \A k \in 1..Len(frame_queue) : frame_queue[k] # p
       /\ \A k \in 1..Len(pending_frames) : pending_frames[k] # p
       /\ p \in seen_files => FrameOf[p] \in baked_frames
  /\ \A b \in 1..Len(batches) :
       FramesOf(batches[b].frames) \cap already_secured = {}
  /\ \A k \in 1..Len(batch_queue) :
       FramesOf(batch_queue[k].frames) \cap already_secured = {}

\* the watcher handles p in this step: through the initial scan, or through
\* the dispatch of a live event for p
Handled(p) ==
  /\ IsCacheFile(FileNames[p])
  /\ \/ ~started /\ started' /\ fsize[p] # Absent
     \/ observing /\ observing' /\ w_pc = "idle" /\ p \in events
          /\ p \notin events'

C16_Step ==
  \A p \in SecuredPaths :
    Handled(p) => /\ p \in seen_files'
                  /\ FrameOf[p] \in baked_frames'
                  /\ frame_queue' = frame_queue \/ p \notin FramesOf(frame_queue')
                  /\ w_pc' = "idle"

\* C16: when the watcher handles a file whose frame number is in the
\* already-secured set, in the initial scan or on a live event, the path is in
\* the seen set and the frame in the produced set afterwards, and the stability
\* wait is not entered; such a path is never put on the file queue, is never
\* pending in the compressor, and no batch of the run lists a seeded frame.
C16_SecuredFileSkipped == [](C16_State) /\ [][C16_Step]_vars

\* C16 witness: a file of a seeded frame was seen and counted as produced and
\* not enqueued, while another file of the run went into a confirmed batch
C16_Witness ==
  /\ \E p \in SecuredPaths :
       /\ p \in seen_files
       /\ FrameOf[p] \in baked_frames
       /\ enq_count[p] = 0
  /\ \E b \in Confirmed(batches) : batches[b].frames # << >>

\* the caller is inside finalize()
InFinalize == m_pc \in {"f_compress", "f_wait", "f_dict"}

\* C17: the wait loop of finalize() sleeps at most FinalizeWaitPolls times,
\* and whenever the caller is inside finalize(), finalize() eventually
\* returns, whatever the Compressor and Uploader threads do or fail to do.
C17_FinalizeReturns ==
  /\ [](f_waited <= FinalizeWaitPolls)
  /\ [](m_pc = "f_dict" => f_waited = 0)
  /\ (InFinalize ~> finalized)

\* C17 witness: finalize() has returned after its wait timed out, with a
\* batch still on the batch queue
C17_Witness ==
  /\ finalized
  /\ "finalize" \in timed_out
  /\ batch_queue # << >>

\* C18: during stop() the filesystem watch is stopped before the compressor is
\* signalled and the compressor before the uploader, and once the compressor
\* has been signalled no path is put on the file queue
C18_State ==
  /\ comp_stop => ~observing /\ w_pc = "idle"
  /\ up_stop => comp_stop

C18_Step ==
  comp_stop => /\ enq_count' = enq_count
               /\ Len(frame_queue') <= Len(frame_queue)

C18_WatchStoppedFirst == [](C18_State) /\ [][C18_Step]_vars

\* stop() has signalled the compressor, and a cache file written after the
\* watch stopped is on disk, never seen and never enqueued
C18_Witness ==
  /\ comp_stop
  /\ \E p \in Paths : /\ fsize[p] # Absent
                       /\ IsCacheFile(FileNames[p])
                       /\ p \notin seen_files
                       /\ enq_count[p] = 0
  /\ \E q \in Paths : enq_count[q] > 0
\* C19: the pending-file list and the training-sample buffer of the compressor
\* are accessed by the Compressor thread only: no other context is inside
\* _compress_batch while the Compressor thread is alive
C19_SingleOwner ==
  c_pc["m"] # "idle" => wk_pc \in {"off", "exited"}
\* the names extract_frame_number returns the frame of: every name of the
\* simple ptcache, OpenVDB, Mantaflow and generic conventions, and the ptcache
\* name with an index whose frame is written with 4 to 6 digits
SupportedName ==
  \/ fc_conv \in 2..NumPatterns
  \/ fc_conv = 1 /\ fc_width \in MinFrameDigits..MaxFrameDigits

\* the result is the capture of the first pattern in list order that matches
FirstMatchDecides ==
  \A k \in 1..NumPatterns :
     (Search(k, fc_name) # 0 /\ \A j \in 1..(k - 1) : Search(j, fc_name) = 0)
       => fc_result = Capture(fc_name, GroupStart(k, Search(k, fc_name)))

\* the result is none for a name that no pattern matches
NoMatchIsNone ==
  /\ (\A k \in 1..NumPatterns : Search(k, fc_name) = 0) => fc_result = NoFrame
  /\ fc_conv = 0 => fc_result = NoFrame

\* C20: extract_frame_number returns N for a file name built for frame N in
\* each naming convention, where for the ptcache name with an index N is
\* written with 4 to 6 digits; the result is the capture of the first pattern
\* in list order that matches, and none for a name that matches no pattern
C20_RoundTrip ==
  fc_result # NotRun =>
    /\ SupportedName => fc_result = fc_frame
    /\ FirstMatchDecides
    /\ NoMatchIsNone

\* C20 witness: a ptcache name with an index, for a frame that is not 0: the
\* generic pattern matches it too and captures the index
C20_Witness ==
  /\ fc_conv = 1
  /\ fc_frame > 0
  /\ fc_result = fc_frame
  /\ Search(NumPatterns, fc_name) # 0

\* C20 as stated: N is returned for a name of any of the five conventions,
\* however many digits N is written with
C20_AnyDigits ==
  fc_result # NotRun =>
    /\ fc_conv \in 1..NumPatterns => fc_result = fc_frame
    /\ FirstMatchDecides
    /\ NoMatchIsNone
\* a step of the _wait_stable loop (not a step of the producer)
GatePoll ==
  /\ w_pc = "wait_stable"
  /\ w_pc' # w_pc \/ w_waited' # w_waited

\* the poll in which the timeout of the gate elapses: the last poll, reading a
\* size that is not the non-zero size read by the poll before it
GateTimeout ==
  /\ GatePoll
  /\ w_waited + 1 = WaitStablePolls
  /\ fsize[w_path] # Absent
  /\ ~(fsize[w_path] = w_last /\ w_last > 0)

C21_Step ==
  /\ GateTimeout =>
        /\ w_pc' = "idle"
        /\ (enq_count'[w_path] = enq_count[w_path] + 1) <=> (fsize[w_path] > 0)
        /\ (frame_queue' = Append(frame_queue, w_path)) <=> (fsize[w_path] > 0)
        /\ fsize[w_path] = 0 => UNCHANGED <<frame_queue, enq_count>>
  /\ (GatePoll /\ fsize[w_path] = Absent) =>
        /\ w_pc' = "idle"
        /\ UNCHANGED <<frame_queue, enq_count>>

\* C21: when the timeout of the stability gate elapses without two equal
\* consecutive non-zero reads, the file is put on the file queue if and only
\* if the size read last is not zero; a file that has disappeared is dropped
\* at the poll that finds it gone, and a file still empty at the timeout is
\* dropped
C21_TimeoutGate == [][C21_Step]_vars

\* C21 witness: one file went through the timeout with data and was enqueued,
\* another was handled and dropped
C21_Witness ==
  /\ \E p \in Paths : admitted[p] = "timeout" /\ enq_count[p] = 1
  /\ \E q \in Paths : /\ q \in seen_files /\ enq_count[q] = 0
                       /\ w_pc = "idle" /\ IsCacheFile(FileNames[q])
                       /\ FrameOf[q] \notin already_secured
\* paths from whose name a frame number is extracted
FramedPaths == {p \in Paths : FrameOf[p] # NoFrame}

C22_State ==
  /\ \A p \in FramedPaths : p \in seen_files => FrameOf[p] \in baked_frames
  /\ (w_pc = "wait_stable" /\ w_path \in FramedPaths)
       => FrameOf[w_path] \in baked_frames

C22_Step ==
  \A p \in FramedPaths :
    (Handled(p) /\ p \notin seen_files) => FrameOf[p] \in baked_frames'

\* C22: the frame of every file the watcher has handled and extracted a frame
\* number from is in the produced set from the step that handles the file on:
\* during the stability wait, and whether the file is then skipped as already
\* secured, dropped by the stability gate or enqueued
C22_ProducedAtOnce == [](C22_State) /\ [][C22_Step]_vars

\* C22 witness: one seeded run in which a file of a secured frame was skipped,
\* a file of another frame was dropped by the gate, and the frames of both are
\* produced
C22_Witness ==
  /\ w_pc = "idle"
  /\ \E p \in FramedPaths : /\ p \in seen_files
                             /\ FrameOf[p] \in already_secured
                             /\ FrameOf[p] \in baked_frames
  /\ \E q \in FramedPaths : /\ q \in seen_files
                             /\ FrameOf[q] \notin already_secured
                             /\ enq_count[q] = 0
                             /\ FrameOf[q] \in baked_frames
                             /\ \A r \in Paths \ {q} : FrameOf[r] # FrameOf[q]
\* C23 as stated: every batch of the ledger covers at least one frame number
C23_NonEmptyBatches ==
  \A i \in 1..Len(batches) : batches[i].frames # << >>
\* the frame numbers _add_frame has appended for a list of files
RECURSIVE FrameNumbersOf(_)
FrameNumbersOf(files) ==
  IF files = << >> THEN << >>
  ELSE add_frame_number(FrameNumbersOf(SubSeq(files, 1, Len(files) - 1)),
                        files[Len(files)])

\* the size test of the main loop is taken in this step
SizeTest ==
  /\ ~comp_stop
  /\ frame_queue = << >>
  /\ wk_pc = "drain"
  /\ wk_pc' # "drain"

C24_Step ==
  /\ SizeTest => (c_pc'["w"] = "begin" <=> Len(pending_frames) >= batch_size)
  /\ (wk_pc \in {"get", "drain"} /\ c_pc'["w"] = "begin")
       => /\ frame_queue = << >>
          /\ Len(pending_frames) >= batch_size
  /\ (wk_pc = "compress" /\ c_pc["w"] = "create" /\ c_pc'["w"] = "compress")
       => /\ Len(batches') = Len(batches) + 1
          /\ batches'[Len(batches')].frames = FrameNumbersOf(c_frames["w"])
          /\ Len(c_frames["w"]) >= batch_size

\* wk_pc = "compress": the Compressor thread is inside the _compress_batch
\* that its main loop called
C24_State ==
  wk_pc = "compress" =>
    /\ c_pc["w"] \in {"begin", "train", "copy1"}
         => /\ Len(pending_frames) >= batch_size
            /\ pending_frame_numbers = FrameNumbersOf(pending_frames)
    /\ c_pc["w"] \in {"copy2", "clear1"} => c_frames["w"] = pending_frames
    /\ c_pc["w"] \in {"create", "compress", "update"}
         => pending_frames = << >> /\ pending_frame_numbers = << >>

CompressionFails(ctx) ==
  /\ c_pc[ctx] = "compress"
  /\ c_pc'[ctx] = "idle"

C25_Step ==
  /\ \A ctx \in Ctx :
       CompressionFails(ctx) =>
         /\ batches'[c_batch[ctx]].status = "failed"
         /\ batch_queue' = batch_queue
         /\ pending_frames' = pending_frames
         /\ pending_frame_numbers' = pending_frame_numbers
         /\ frame_queue' = frame_queue
         /\ enq_count' = enq_count
  /\ pending_frames' # pending_frames =>
         \/ pending_frames' = << >>
         \/ /\ frame_queue # << >>
            /\ pending_frames' = Append(pending_frames, Head(frame_queue))
            /\ frame_queue' = Tail(frame_queue)
  /\ Len(frame_queue') > Len(frame_queue) =>
         /\ SubSeq(frame_queue', 1, Len(frame_queue)) = frame_queue
         /\ \A k \in (Len(frame_queue) + 1)..Len(frame_queue') :
              /\ enq_count[frame_queue'[k]] = 0
              /\ enq_count'[frame_queue'[k]] = 1

C25_State ==
  \A i \in CompFailed(batches) :
    /\ \A k \in 1..Len(batch_queue) : batch_queue[k].id # i
    /\ \A k \in 1..Len(up_tried) : up_tried[k] # i
    /\ up_item.id # i

\* C25: the step in which compression of a batch raises marks the batch
\* failed and puts nothing on the batch queue, the pending lists or the file
\* queue; the batch never reaches the uploader; and for the rest of the run
\* the pending list grows only by the head of the file queue, on which every
\* path is put at most once, so the files of the batch are not pending or
\* enqueued again
C25_FailedBatchDropped == [](C25_State) /\ [][C25_Step]_vars

\* C25 witness: the compression of a batch has failed, its file is on disk,
\* the producer is done and every stage is idle with nothing queued or pending
C25_Witness ==
  /\ Quiet
  /\ writes_left = 0
  /\ events = {}
  /\ \E i \in CompFailed(batches) :
       \E p \in Paths : /\ FrameOf[p] # NoFrame
                        /\ FramesOf(batches[i].frames) = {FrameOf[p]}
                        /\ enq_count[p] = 1
                        /\ fsize[p] # Absent
\* the step in which _compress_batch calls update_batch_size, in context ctx
SizingStep(ctx) ==
  /\ c_pc[ctx] = "update"
  /\ c_pc'[ctx] = "idle"

C26_Step ==
  \A ctx \in Ctx :
    (SizingStep(ctx) /\ Confirmed(batches) = {}) => batch_size' = batch_size

\* C26: while the ledger holds no confirmed batch, a call of update_batch_size
\* leaves the target batch size as it is, and the target is the configured
\* default
C26_DefaultUntilConfirmed ==
  /\ [](Confirmed(batches) = {} => batch_size = DEFAULT_BATCH_SIZE)
  /\ [][C26_Step]_vars

\* C26 witness: a batch was compressed and queued and update_batch_size has
\* run for it, with no batch confirmed
C26_Witness ==
  /\ Confirmed(batches) = {}
  /\ c_pc["w"] = "idle" /\ wk_pc = "get"
  /\ \E i \in 1..Len(batches) : batches[i].status = "compressed"
  /\ batch_queue # << >>
  /\ batch_size = DEFAULT_BATCH_SIZE
\* finalize() uploads the dictionary exactly when it is trained, and nothing
\* else uploads it
C27_UploadStep ==
  /\ (m_pc = "f_dict" /\ m_pc' # "f_dict")
       => dict_uploads' = dict_uploads + (IF dm_trained THEN 1 ELSE 0)
  /\ dict_uploads' # dict_uploads => m_pc = "f_dict"

\* the dictionary file is written by a training step of _compress_batch, and
\* only when it has not been written before
C27_SaveStep ==
  dict_saves' # dict_saves =>
    /\ dict_saves = 0
    /\ \E ctx \in Ctx : c_pc[ctx] = "train"

\* C27 as stated: finalize() uploads the dictionary if and only if it is
\* trained, at most once in the run, and the local dictionary file is written
\* once, at training, and never again
C27_DictOnce ==
  /\ [](dict_uploads <= 1 /\ dict_saves <= 1)
  /\ [](dm_trained <=> dict_saves = 1)
  /\ [][C27_UploadStep /\ C27_SaveStep]_vars
C28_Step ==
  /\ (wk_pc' = "final" /\ wk_pc # "final")
       => wk_pc = "get" /\ comp_stop /\ c_pc["w"] = "idle"
  /\ (wk_pc' = "exited" /\ wk_pc # "exited")
       => wk_pc \in {"final", "final_compress"} /\ c_pc'["w"] = "idle"
  /\ (up_pc' = "exited" /\ up_pc # "exited")
       => up_pc = "get" /\ up_stop /\ up_item = NoItem
  /\ (c_pc["w"] = "compress" /\ c_pc'["w"] # "compress")
       => batches'[c_batch["w"]].status \in {"compressed", "failed"}
  /\ (up_pc = "upload" /\ up_pc' # "upload")
       => batches'[up_item.id].status \in {"confirmed", "failed"}

\* C28: the Compressor thread leaves its loop, and the Uploader thread ends,
\* only at the head of the loop with the stop event set; a compression or an
\* upload under way when stop is signalled is carried on until it ends, and
\* the step that ends it leaves the batch compressed or failed, respectively
\* confirmed or failed
C28_StopBetweenItems ==
  /\ [][C28_Step]_vars
  /\ (comp_stop /\ c_pc["w"] = "compress") ~> (c_pc["w"] # "compress")
  /\ (up_stop /\ up_pc = "upload") ~> (up_pc # "upload")

\* C28 witness: the uploader has been signalled to stop and is past the upload
\* of a batch it took before the signal: the batch is confirmed and the thread
\* has not ended
C28_Witness ==
  /\ up_stop
  /\ up_pc = "notify"
  /\ batches[up_item.id].status = "confirmed"

\* contexts that hold a batch they have created and not finished
Holding == {ctx \in Ctx : c_pc[ctx] \in {"compress", "update"}}

C29_State ==
  /\ \A ctx \in Holding : c_batch[ctx] \in 1..Len(batches)
  /\ \A c, d \in Holding : c # d => c_batch[c] # c_batch[d]
  /\ \A j, k \in 1..Len(batch_queue) :
       j # k => batch_queue[j].id # batch_queue[k].id
  /\ \A k \in 1..Len(batch_queue) :
       /\ batch_queue[k].id \in 1..Len(batches)
       /\ batch_queue[k].id # up_item.id
       /\ batch_queue[k].frames = batches[batch_queue[k].id].frames
  /\ secured_frames = already_secured \cup ConfirmedFrames(batches)

C29_Step ==
  /\ Len(batches') >= Len(batches)
  /\ \A ctx \in Ctx :
       (c_pc[ctx] = "create" /\ c_pc'[ctx] = "compress") =>
         /\ Len(batches') = Len(batches) + 1
         /\ c_batch'[ctx] = Len(batches')
         /\ \A i \in 1..Len(batches) : batches'[i] = batches[i]
         /\ \A d \in Holding : c_batch'[ctx] > c_batch[d]

\* C29: every batch gets, at creation, an id above every id given before, by
\* whichever context creates it, the Compressor thread or the thread inside
\* flush(); no two batches in hand or on the batch queue share an id; and the
\* secured set is the seeded frames and the frames of the confirmed batches,
\* whatever the order in which they were confirmed
C29_IdsIncrease == [](C29_State) /\ [][C29_Step]_vars

\* C29 witness: both contexts created a batch, and the later batch is
\* confirmed while the earlier one is not
C29_Witness ==
  \E a, b \in 1..Len(batches) :
    /\ a < b
    /\ batches[b].status = "confirmed"
    /\ batches[a].status \in {"pending", "compressed"}
    /\ batches[b].frames # << >>

\* _upload_file resumes with a failed upload of the file in hand
UploadFailsStep ==
  /\ cs_pc = "upload" /\ cs_pc' = "get"
  /\ cs_result' = "failure"

\* a turn of _batch_loop sends a request other than the last one
RequestStep == cs_request' # cs_request

C30_FailStep ==
  UploadFailsStep =>
    /\ cs_file \in cs_failed'
    /\ cs_file \notin cs_queued'
    /\ cs_file \in Keys(cs_pending')
    /\ cs_file \notin Keys(cs_pending) =>
         cs_pending' = Append(cs_pending, cs_file)
    /\ cs_file \in Keys(cs_pending) => cs_pending' = cs_pending

C30_RequestStep ==
  /\ RequestStep =>
       /\ cs_pending' = cs_pending
       /\ Len(cs_request') <= UPLOAD_BATCH_SIZE
       /\ \A f \in CsFiles :
            f \in Keys(cs_request') <=>
              \E i \in 1..Len(cs_pending) :
                i <= UPLOAD_BATCH_SIZE /\ cs_pending[i] = f
  /\ \A f \in CsFiles :
       (cs_retry[f] = "waiting" /\ cs_retry'[f] = "asked") =>
         f \in Keys(cs_request') /\ f \in Keys(cs_pending')

\* C30: when upload_file returns failure, the file is added to failed_files,
\* leaves queued_files and is in pending_url_files, at the end if it was not
\* there; a batch cycle that sends a request asks for the first
\* UPLOAD_BATCH_SIZE entries of pending_url_files, so the file put back is
\* asked for by a cycle in which it is among them, and stays pending
C30_PutBackForRequest == [][C30_FailStep /\ C30_RequestStep]_vars

\* C30 witness: a file whose upload failed was put back, a later request
\* named it, and it is still out of queued_files
C30_Witness ==
  \E f \in CsFiles :
    /\ cs_retry[f] = "asked"
    /\ f \in cs_failed
    /\ f \in Keys(cs_request)
    /\ f \in Keys(cs_pending)
    /\ f \notin cs_queued

\* C30 as stated: the batch cycle that follows a failed upload asks for the
\* file that was put back, wherever it stands in pending_url_files
C30_NextCycleRequests ==
  [][RequestStep =>
       \A f \in CsFiles : cs_retry[f] = "waiting" => f \in Keys(cs_request')]_vars

\* the batches whose files include path p
BatchesOf(p) == {i \in 1..Len(batch_files) : p \in FramesOf(batch_files[i])}

\* frames that a batch confirmed in this run carries
ConfirmedHere == ConfirmedFrames(batches)

\* C31 as stated: when a confirmed batch carries a frame, every file of that
\* frame that the watcher put on the file queue is in a confirmed batch
C31_SecuredFrameWhole ==
  \A p \in Paths :
    (FrameOf[p] \in ConfirmedHere /\ enq_count[p] > 0) =>
      \E i \in BatchesOf(p) : batches[i].status = "confirmed"

\* paths the compressor has taken from the file queue
Taken == {p \in Paths : enq_count[p] > 0 /\ p \notin FramesOf(frame_queue)}

\* paths still on their way into a batch: pending, or copied by a
\* _compress_batch that has not created its batch yet
InHand ==
  FramesOf(pending_frames) \cup
  UNION {FramesOf(c_frames[ctx]) :
           ctx \in {c \in Ctx : c_pc[c] \in {"copy2", "clear1", "clear2",
                                              "create"}}}

\* C32 as stated: no path is in two batches, and every path taken from the
\* file queue that is neither pending nor in the hands of _compress_batch is
\* in a batch, also while flush() runs beside the Compressor thread
C32_ExactlyOneBatch ==
  \A p \in Paths :
    /\ Cardinality(BatchesOf(p)) <= 1
    /\ (p \in Taken /\ p \notin InHand) => BatchesOf(p) # {}

\* C33 as stated: once the Uploader thread has exited and the Compressor
\* thread has too, the batch queue is empty and no batch is in the compressed
\* state: every batch put on the queue was confirmed or failed
C33_QueueDrainedAtExit ==
  (up_pc = "exited" /\ wk_pc = "exited") =>
    /\ batch_queue = << >>
    /\ \A i \in 1..Len(batches) : batches[i].status # "compressed"

\* C34 as stated: after finalize() has returned, every path that was put on
\* the file queue before the call is in a batch; after stop() has returned,
\* so is every path put on the file queue (in a run without a producer all
\* of them were put there by the initial scan, before the call)
C34_AllConsumed ==
  /\ finalized => \A p \in f_enq : BatchesOf(p) # {}
  /\ m_pc = "stopped" => \A p \in Arrived : BatchesOf(p) # {}

\* finalize() returns and its wait loop did not reach the timeout
FinalizeReturnsInTime ==
  /\ m_pc = "f_dict" /\ finalized'
  /\ "finalize" \notin timed_out'

\* C35 as stated: when finalize() returns without its timeout, the Uploader
\* thread is not inside _upload_batch and every batch created so far is
\* confirmed or failed
C35_NothingInFlight ==
  [][FinalizeReturnsInTime =>
       /\ up_pc' # "upload"
       /\ \A i \in 1..Len(batches') :
            batches'[i].status \in {"confirmed", "failed"}]_vars

\* paths the watcher dropped at the stability gate: seen, not skipped as
\* secured, not inside _wait_stable, and never put on the file queue
Dropped ==
  {p \in Paths :
     /\ p \in seen_files
     /\ enq_count[p] = 0
     /\ ~(w_pc = "wait_stable" /\ w_path = p)
     /\ ~(FrameOf[p] # NoFrame /\ FrameOf[p] \in already_secured)}

\* C36 as stated: a create/modify event for a path that was dropped at the
\* gate and now has non-zero content takes the path to the stability wait
\* again, from which it is enqueued once stable
C36_DroppedRetried ==
  [][\A p \in Dropped :
       (p \in events /\ p \notin events' /\ fsize[p] > 0) =>
         (w_pc' = "wait_stable" /\ w_path' = p)]_vars

\* number of entries of upload_queue for file f
QueueCount(q, f) == Cardinality({i \in 1..Len(q) : q[i] = f})

C37_State ==
  \A i, j \in 1..Len(cs_pending) : i # j => cs_pending[i] # cs_pending[j]

C37_Step ==
  /\ \A f \in CsFiles :
       /\ QueueCount(cs_upload_queue', f) <= QueueCount(cs_upload_queue, f) + 1
       /\ QueueCount(cs_upload_queue', f) > QueueCount(cs_upload_queue, f) =>
            (f \in Keys(cs_pending) /\ f \notin Keys(cs_pending'))
  /\ QueueCount(cs_upload_queue', UnknownFile) = 0
  /\ (cs_pc # "upload" /\ cs_pc' = "upload") => cs_file' \notin cs_uploaded'
  /\ (cs_pc = "upload" /\ cs_pc' = "get") => cs_file \notin cs_uploaded

\* C37: pending_url_files holds a file at most once; a file joins
\* upload_queue only by leaving pending_url_files, once per entry there (a
\* registration, or the re-registration of a failed upload), so a request
\* repeated for a pending file, an entry repeated in a message and an entry
\* for an unknown path enqueue nothing more; and upload_file is not called
\* for a file that is in uploaded_files
C37_EnqueuedOncePerEntry == [](C37_State) /\ [][C37_Step]_vars

\* C37 witness: a file that a request named is on upload_queue once and out
\* of pending_url_files, still in queued_files, and another upload has
\* succeeded
C37_Witness ==
  \E f \in CsFiles :
    /\ QueueCount(cs_upload_queue, f) = 1
    /\ f \in Keys(cs_request)
    /\ f \notin Keys(cs_pending)
    /\ f \in cs_queued
    /\ cs_uploaded \ {f} # {}

\* files the streamer holds in one of its sets, on its queue or in hand
Registered ==
  cs_queued \cup cs_uploaded \cup cs_failed \cup Keys(cs_pending)
    \cup Keys(cs_upload_queue)
    \cup (IF cs_pc \in {"stable", "upload"} THEN {cs_file} ELSE {})

\* C38 as stated: when finalize() sends the cache-complete message and
\* neither of its waits timed out, _upload_file is not under way and every
\* registered file is in uploaded_files
C38_CompleteMeansUploaded ==
  [][(cs_fin = "send" /\ cs_fin' = "sent" /\ cs_fin_timed_out = {}) =>
       /\ cs_pc \notin {"stable", "upload"}
       /\ Registered \subseteq cs_uploaded]_vars

\* a step on which a call of _upload_file ends: at one of its early returns
\* when the entry is taken, after the stability wait, or after upload_file
UploadFileEnds ==
  /\ cs_pc' = "get"
  /\ \/ cs_pc \in {"stable", "upload"}
     \/ cs_pc = "get" /\ Len(cs_upload_queue') < Len(cs_upload_queue)

\* the file of the call is out of queued_files, and uploaded, back in
\* pending_url_files, or missing from the cache directory
UploadFileSettled ==
  /\ cs_file' \notin cs_queued'
  /\ \/ cs_file' \in cs_uploaded'
     \/ cs_file' \in Keys(cs_pending')
     \/ cs_fsize'[cs_file'] = Absent

\* C39 as stated: every call of _upload_file, whatever the outcome of the PUT
\* (an exception upload_file does not catch included), ends with the file out
\* of queued_files and uploaded, back in pending_url_files or missing
C39_UploadFileSettles == [][UploadFileEnds => UploadFileSettled]_vars
====
